---- MODULE Spec2Model ----
(***************************************************************************)
(* JiraStopWatch: the timer registry, the wall-clock elapsed-time          *)
(* accounting, the duration codec, the pending-worklog queue and the       *)
(* background operations of src/jirastopwatch/app.py, as a state machine.  *)
(*                                                                         *)
(* Time.  time.time() is a float number of seconds; the model counts it in *)
(* ticks of 1/TicksPerSecond second, so that int(...) of a difference of   *)
(* two clock readings truncates as it does in the code.  The wall clock    *)
(* may also be set back.  A handler reads the clock once: the few          *)
(* microseconds between two time.time() calls of one handler are not       *)
(* modelled.  Clock readings are >= 1 (seconds since 1970).                 *)
(*                                                                         *)
(* Texts.  A text the codec reads or writes is a sequence of one-character *)
(* strings, <<"1", "m", " ", "3", "0", "s">> for "1m 30s".                 *)
(***************************************************************************)
EXTENDS Integers, Sequences, FiniteSets, TLC

\* ---------------------------------------------------------------- bounds --
MaxRows == 2        \* timer rows in the registry
MaxClock == 3       \* wall-clock readings are 1..MaxClock ticks
MaxSeconds == 2     \* cap on a timer's tracked seconds
MaxPending == 2     \* pending worklogs ever created
MaxInFlight == 1    \* background operations running or waiting for delivery
MaxPosts == 2       \* remote posts of one pending worklog

TicksPerSecond == 2

\* Python's None (TimerState.last_started, Worklog.remaining_estimate).
None == -1

\* bool(x) of an Optional[float]: None and 0.0 are false.
Truthy(x) == x # None /\ x # 0

Max(a, b) == IF a >= b THEN a ELSE b

\* int(x) of a float difference given in ticks: truncation toward zero.
Trunc(d) == IF d >= 0 THEN d \div TicksPerSecond ELSE -((-d) \div TicksPerSecond)

Range(s) == {s[i] : i \in 1..Len(s)}

\* ---------------------------------------------------------- duration codec --
SECONDS_PER_MINUTE == 60
SECONDS_PER_HOUR == 60 * SECONDS_PER_MINUTE
SECONDS_PER_DAY == 24 * SECONDS_PER_HOUR

\* parse_duration raises ValueError: the model's result is ValueError.
ValueError == -1

DigitChars == <<"0", "1", "2", "3", "4", "5", "6", "7", "8", "9">>

isdigit(ch) == \E k \in 1..10 : DigitChars[k] = ch

isspace(ch) == ch \in {" ", "\t", "\n"}

DigitValue(ch) == (CHOOSE k \in 1..10 : DigitChars[k] = ch) - 1

\* int(token), had it read the last digit only.
IntOfToken_last_digit(token) ==
    IF token = <<>> THEN 0 ELSE DigitValue(token[Len(token)])

\* int(token) of a non-empty run of digits.
RECURSIVE IntOfToken(_)
IntOfToken(token) ==
    IF token = <<>> THEN 0
    ELSE 10 * IntOfToken(SubSeq(token, 1, Len(token) - 1)) + DigitValue(token[Len(token)])

\* str.strip(): leading and trailing whitespace removed.
RECURSIVE strip(_)
strip(s) ==
    IF s = <<>> THEN s
    ELSE IF isspace(s[1]) THEN strip(Tail(s))
    ELSE IF isspace(s[Len(s)]) THEN strip(SubSeq(s, 1, Len(s) - 1))
    ELSE s

\* The loop of parse_duration from character i on, with the running total and
\* the digits read since the last suffix.
RECURSIVE parse_scan(_, _, _, _)
parse_scan(s, i, total, token) ==
    IF i > Len(s)
    THEN IF token # <<>> THEN ValueError ELSE total
    ELSE LET char == s[i] IN
         IF isdigit(char) THEN parse_scan(s, i + 1, total, Append(token, char))
         ELSE IF isspace(char)
              THEN IF token # <<>> THEN ValueError ELSE parse_scan(s, i + 1, total, token)
         ELSE IF token = <<>> THEN ValueError
         ELSE LET value == IntOfToken(token) IN
              IF char = "d" THEN parse_scan(s, i + 1, total + value * SECONDS_PER_DAY, <<>>)
              ELSE IF char = "h" THEN parse_scan(s, i + 1, total + value * SECONDS_PER_HOUR, <<>>)
              ELSE IF char = "m" THEN parse_scan(s, i + 1, total + value * SECONDS_PER_MINUTE, <<>>)
              ELSE IF char = "s" THEN parse_scan(s, i + 1, total + value, <<>>)
              ELSE ValueError

parse_duration(duration) ==
    LET d == strip(duration) IN
    IF d = <<>> THEN ValueError ELSE parse_scan(d, 1, 0, <<>>)

\* str(n) of an integer n >= 0.
RECURSIVE DecimalText(_)
DecimalText(n) ==
    IF n < 10 THEN <<DigitChars[n + 1]>>
    ELSE DecimalText(n \div 10) \o <<DigitChars[(n % 10) + 1]>>

\* "".join(parts): the parts without the blank between them.
RECURSIVE JoinParts_tight(_)
JoinParts_tight(parts) ==
    IF parts = <<>> THEN <<>> ELSE parts[1] \o JoinParts_tight(Tail(parts))

\* " ".join(parts)
RECURSIVE JoinParts(_)
JoinParts(parts) ==
    IF parts = <<>> THEN <<>>
    ELSE IF Len(parts) = 1 THEN parts[1]
    ELSE parts[1] \o <<" ">> \o JoinParts(Tail(parts))

\* format_duration, had it left the seconds out once there are minutes.
format_duration_coarse(seconds) ==
    IF seconds < 0 THEN <<"ValueError">>
    ELSE IF seconds < SECONDS_PER_MINUTE THEN DecimalText(seconds) \o <<"s">>
    ELSE DecimalText(seconds \div SECONDS_PER_MINUTE) \o <<"m">>

\* format_duration(seconds) for seconds >= 0; it raises ValueError below 0.
format_duration(seconds) ==
    IF seconds < 0 THEN <<"ValueError">>
    ELSE
    LET r0 == seconds
        p1 == IF r0 >= SECONDS_PER_DAY
              THEN <<DecimalText(r0 \div SECONDS_PER_DAY) \o <<"d">>>> ELSE <<>>
        r1 == IF r0 >= SECONDS_PER_DAY THEN r0 % SECONDS_PER_DAY ELSE r0
        p2 == IF r1 >= SECONDS_PER_HOUR
              THEN Append(p1, DecimalText(r1 \div SECONDS_PER_HOUR) \o <<"h">>) ELSE p1
        r2 == IF r1 >= SECONDS_PER_HOUR THEN r1 % SECONDS_PER_HOUR ELSE r1
        p3 == IF r2 >= SECONDS_PER_MINUTE
              THEN Append(p2, DecimalText(r2 \div SECONDS_PER_MINUTE) \o <<"m">>) ELSE p2
        r3 == IF r2 >= SECONDS_PER_MINUTE THEN r2 % SECONDS_PER_MINUTE ELSE r2
        p4 == IF p3 = <<>> \/ r3 # 0 THEN Append(p3, DecimalText(r3) \o <<"s">>) ELSE p3
    IN JoinParts(p4)

\* ------------------------------------------------------------- TimerState --
\* models.TimerState(): the dataclass defaults.
TimerState ==
    [issue_key |-> "", description |-> "", seconds |-> 0, running |-> FALSE,
     last_started |-> None, comment |-> ""]

\* TimerRow.current_seconds at clock reading now.
current_seconds(state, now) ==
    IF state.running /\ Truthy(state.last_started)
    THEN state.seconds + Trunc(now - state.last_started)
    ELSE state.seconds

\* The seconds TimerRow.refresh_display hands to format_duration at now.
refresh_display(state, now) ==
    IF state.running /\ Truthy(state.last_started)
    THEN state.seconds + Trunc(now - state.last_started)
    ELSE state.seconds

\* pause_timer, had it stored the elapsed time of the run instead of adding it.
pause_state_overwrites(state, now) ==
    IF ~state.running THEN state
    ELSE LET elapsed == IF Truthy(state.last_started)
                        THEN Trunc(now - state.last_started) ELSE 0
         IN [state EXCEPT !.seconds = Max(0, elapsed),
                          !.running = FALSE,
                          !.last_started = None]

\* The state TimerRow.pause_timer leaves.
pause_state(state, now) ==
    IF ~state.running THEN state
    ELSE LET elapsed == IF Truthy(state.last_started)
                        THEN Trunc(now - state.last_started) ELSE 0
         IN [state EXCEPT !.seconds = @ + Max(0, elapsed),
                          !.running = FALSE,
                          !.last_started = None]

\* The state TimerRow.start_timer leaves on a row that has an issue key.
start_state(state, now) ==
    [state EXCEPT !.running = TRUE, !.last_started = now]

\* The state TimerRow.reset_timer (confirmed) and reset_all_timers leave.
reset_state(state) ==
    [state EXCEPT !.seconds = 0, !.running = FALSE, !.last_started = None]

\* edit_duration, had it set the seconds and left the run start as it was.
edit_state_keeps_start(state, seconds, now) ==
    [state EXCEPT !.seconds = seconds]

\* edit_duration, had it stamped the run start whether or not the timer runs.
edit_state_stamps(state, seconds, now) ==
    [state EXCEPT !.seconds = seconds, !.last_started = now]

\* The state TimerRow.edit_duration leaves once the text has parsed.
edit_state(state, seconds, now) ==
    [state EXCEPT !.seconds = seconds,
                  !.last_started = IF state.running THEN now ELSE None]

\* The state TimerRow.prepare_for_exit leaves.
prepare_state(state, now) ==
    IF state.running /\ Truthy(state.last_started)
    THEN [state EXCEPT !.seconds = @ + Max(0, Trunc(now - state.last_started)),
                       !.last_started = now]
    ELSE state

\* _load_timers, had it credited the gap and kept the persisted run start.
load_state_keeps_start(state, now) ==
    IF state.running /\ Truthy(state.last_started)
    THEN [state EXCEPT !.seconds = @ + Trunc(Max(0, now - state.last_started))]
    ELSE state

\* The state _load_timers hands to add_timer for one loaded state.
load_state_fold(state, now) ==
    IF state.running /\ Truthy(state.last_started)
    THEN [state EXCEPT !.seconds = @ + Trunc(Max(0, now - state.last_started)),
                       !.last_started = now]
    ELSE state

\* ------------------------------------------------------------------ inputs --
\* Issue keys Jira knows; what the user types into the issue entry.
Keys == {"A", "B"}
IssueInputs == {"", " ", "A", "B"}

\* str.strip() of an issue-key input.
strip_key(text) == IF text = " " THEN "" ELSE text

\* JiraIssue.summary of an issue.
Summary(key) == IF key = "A" THEN "sumA" ELSE "sumB"

\* What the user types into a comment field.
Comments == {"", "c"}

\* What the user types into a duration field: "", "0s", "1s", "2s", "1 s", "2".
DurationInputs ==
    {<<>>, <<"0", "s">>, <<"1", "s">>, <<"2", "s">>, <<"1", " ", "s">>, <<"2">>}

\* ------------------------------------------------------------------- state --
VARIABLES
    alive,             \* the process runs (between __init__ and destroy)
    clock,             \* time.time(), in ticks
    timers,            \* JiraStopWatchApp.timers: row.state of each TimerRow
    pending_worklogs,  \* JiraStopWatchApp.pending_worklogs
    settings,          \* JiraStopWatchApp.settings and .client
    dialog,            \* the open WorklogDialog, or NoDialog
    tasks,             \* background threads that run
    events,            \* after(0, ...) callbacks waiting for the owner thread
    disk,              \* state.json, settings.json, pending_worklogs.json
    posted,            \* Jira: how often each pending worklog was posted
    next_uid,          \* identity of the next PendingWorklog object
    removed,           \* pending worklogs the user removed
    last               \* the handler that ran last

vars == <<alive, clock, timers, pending_worklogs, settings, dialog, tasks, events,
          disk, posted, next_uid, removed, last>>

\* models.AppSettings(): the defaults; the client made of them is not configured.
AppSettings == [configured |-> FALSE, filter_cache |-> {}]

NoDialog == [open |-> FALSE, row |-> 0, time_var |-> <<>>]

NoWorklog == [issue_key |-> "", seconds |-> 0, comment |-> ""]

\* What persist_state writes: save_state, save_settings, save_pending_worklogs.
persist_state(rows, st, pw) == [timers |-> rows, settings |-> st, pending |-> pw]

InFlight == Len(tasks) + Len(events)

\* A TimerRow a thread, a callback or the dialog refers to is named by its
\* position in the registry, 0 once it was removed: what `ref` names after the
\* row at position i was removed.
after_removal(ref, i) == IF ref = i THEN 0 ELSE IF ref > i THEN ref - 1 ELSE ref

\* Immediate posts whose failure would still append a pending worklog.
PostsInFlight ==
    Cardinality({i \in 1..Len(tasks) : tasks[i].kind = "post"})
    + Cardinality({i \in 1..Len(events) : events[i].task.kind = "post"})

CanEnqueue == next_uid + PostsInFlight <= MaxPending

\* A sequence without its i-th element.
RemoveAt(s, i) == SubSeq(s, 1, i - 1) \o SubSeq(s, i + 1, Len(s))

\* run_in_background's thread for func, with what its callbacks close over.
Task(kind, row, key, worklog, items, indices) ==
    [kind |-> kind, row |-> row, key |-> key, worklog |-> worklog,
     items |-> items, indices |-> indices, done |-> 0,
     client |-> settings.configured]

Init ==
    /\ alive = TRUE
    /\ clock = 1
    /\ timers = <<TimerState>>
    /\ pending_worklogs = <<>>
    /\ settings = AppSettings
    /\ dialog = NoDialog
    /\ tasks = <<>>
    /\ events = <<>>
    /\ disk = [timers |-> <<>>, settings |-> AppSettings, pending |-> <<>>]
    /\ posted = [u \in 1..MaxPending |-> 0]
    /\ next_uid = 1
    /\ removed = {}
    /\ last = "__init__"

\* ------------------------------------------------------------------- clock --
\* No timer, in memory or on disk, would track more than MaxSeconds at reading t.
WithinCap(t, max_seconds) ==
    \A st \in Range(timers) \cup Range(disk.timers) :
        (st.running /\ Truthy(st.last_started))
            => st.seconds + Max(0, Trunc(t - st.last_started)) <= max_seconds

\* Time passes: the next reading is at most max_clock, and no timer tracks more
\* than max_seconds at it.
Advance(max_clock, max_seconds) ==
    \E t \in (clock + 1)..max_clock :
        /\ WithinCap(t, max_seconds)
        /\ clock' = t
        /\ UNCHANGED <<alive, timers, pending_worklogs, settings, dialog, tasks, events,
                       disk, posted, next_uid, removed, last>>

\* The wall clock is set back (NTP step, manual change).
SetBack ==
    \E t \in 1..(clock - 1) :
        /\ clock' = t
        /\ UNCHANGED <<alive, timers, pending_worklogs, settings, dialog, tasks, events,
                       disk, posted, next_uid, removed, last>>

\* ------------------------------------------------------------------ timers --
\* The main window takes user input: the process runs and no WorklogDialog
\* holds the grab.
UI == alive /\ ~dialog.open

\* The rows with `update` applied to the state of row i.
WithState(rows, i, update) == [rows EXCEPT ![i] = update]

\* JiraStopWatchApp.add_timer() from the toolbar; it does not persist.
add_timer(max_rows) ==
    /\ UI
    /\ Len(timers) < max_rows
    /\ timers' = Append(timers, TimerState)
    /\ last' = "add_timer"
    /\ UNCHANGED <<alive, clock, pending_worklogs, settings, dialog, tasks, events,
                   disk, posted, next_uid, removed>>

\* JiraStopWatchApp.remove_timer(row), the user confirming.
remove_timer(i) ==
    /\ UI
    /\ i \in 1..Len(timers)
    /\ timers' = RemoveAt(timers, i)
    /\ tasks' = [k \in 1..Len(tasks) |-> [tasks[k] EXCEPT !.row = after_removal(@, i)]]
    /\ events' = [k \in 1..Len(events) |->
                     [events[k] EXCEPT !.task.row = after_removal(@, i)]]
    /\ disk' = persist_state(timers', settings, pending_worklogs)
    /\ last' = "remove_timer"
    /\ UNCHANGED <<alive, clock, pending_worklogs, settings, dialog,
                   posted, next_uid, removed>>

\* The rows after pause_timer() on every row.
pause_all_rows(rows, now) ==
    [j \in 1..Len(rows) |-> pause_state(rows[j], now)]

\* JiraStopWatchApp.pause_all().
pause_all ==
    /\ UI
    /\ timers' = pause_all_rows(timers, clock)
    /\ disk' = persist_state(timers', settings, pending_worklogs)
    /\ last' = "pause_all"
    /\ UNCHANGED <<alive, clock, pending_worklogs, settings, dialog, tasks, events,
                   posted, next_uid, removed>>

\* JiraStopWatchApp.reset_all_timers(), the user confirming; with no timers it
\* only shows a message.
reset_all_timers ==
    /\ UI
    /\ timers # <<>>
    /\ timers' = [j \in 1..Len(timers) |-> reset_state(timers[j])]
    /\ disk' = persist_state(timers', settings, pending_worklogs)
    /\ last' = "reset_all_timers"
    /\ UNCHANGED <<alive, clock, pending_worklogs, settings, dialog, tasks, events,
                   posted, next_uid, removed>>

\* JiraStopWatchApp.remove_all_timers(), the user confirming.
remove_all_timers ==
    /\ UI
    /\ timers # <<>>
    /\ timers' = <<>>
    /\ tasks' = [k \in 1..Len(tasks) |-> [tasks[k] EXCEPT !.row = 0]]
    /\ events' = [k \in 1..Len(events) |-> [events[k] EXCEPT !.task.row = 0]]
    /\ disk' = persist_state(timers', settings, pending_worklogs)
    /\ last' = "remove_all_timers"
    /\ UNCHANGED <<alive, clock, pending_worklogs, settings, dialog,
                   posted, next_uid, removed>>

\* start_timer(), had timer_started(row) left the other rows alone.
timer_started_alone(rows, i, now) ==
    [rows EXCEPT ![i] = start_state(rows[i], now)]

\* start_timer(), had timer_started(row) stopped the other rows without
\* crediting them the time of their run.
timer_started_drops_run(rows, i, now) ==
    [j \in 1..Len(rows) |->
        IF j = i THEN start_state(rows[j], now)
        ELSE [rows[j] EXCEPT !.running = FALSE, !.last_started = None]]

\* The rows after start_timer() set row i running and timer_started(row) paused
\* every other running row.
timer_started_rows(rows, i, now) ==
    [j \in 1..Len(rows) |->
        IF j = i THEN start_state(rows[j], now)
        ELSE IF rows[j].running THEN pause_state(rows[j], now)
        ELSE rows[j]]

\* start_timer, had it not looked at the issue key.
start_timer_unchecked(i) ==
    /\ UI
    /\ i \in 1..Len(timers)
    /\ InFlight < MaxInFlight
    /\ timers' = timer_started_rows(timers, i, clock)
    /\ tasks' = Append(tasks, Task("transition", 0, "", NoWorklog, <<>>, <<>>))
    /\ disk' = persist_state(timers', settings, pending_worklogs)
    /\ last' = "start_timer"
    /\ UNCHANGED <<alive, clock, pending_worklogs, settings, dialog, events,
                   posted, next_uid, removed>>

\* TimerRow.start_timer() and the controller's timer_started(row).
start_timer(i) ==
    /\ UI
    /\ i \in 1..Len(timers)
    /\ IF timers[i].issue_key = ""
       THEN /\ last' = "start_timer:issue_missing"
            /\ UNCHANGED <<timers, tasks, disk>>
       ELSE /\ InFlight < MaxInFlight
            /\ timers' = timer_started_rows(timers, i, clock)
            /\ tasks' = Append(tasks, Task("transition", 0, "", NoWorklog, <<>>, <<>>))
            /\ disk' = persist_state(timers', settings, pending_worklogs)
            /\ last' = IF \E j \in 1..Len(timers) : j # i /\ timers[j].running
                       THEN "start_timer:paused_other" ELSE "start_timer"
    /\ UNCHANGED <<alive, clock, pending_worklogs, settings, dialog, events,
                   posted, next_uid, removed>>

\* TimerRow.pause_timer() and the controller's timer_paused(row).
pause_timer(i) ==
    /\ UI
    /\ i \in 1..Len(timers)
    /\ timers[i].running
    /\ timers' = WithState(timers, i, pause_state(timers[i], clock))
    /\ disk' = persist_state(timers', settings, pending_worklogs)
    /\ last' = "pause_timer:" \o ToString(timers'[i].seconds - timers[i].seconds)
    /\ UNCHANGED <<alive, clock, pending_worklogs, settings, dialog, tasks, events,
                   posted, next_uid, removed>>

\* TimerRow.toggle_timer(): the Start/Pause button.
toggle_timer(i) ==
    /\ i \in 1..Len(timers)
    /\ IF timers[i].running THEN pause_timer(i) ELSE start_timer(i)

\* TimerRow.reset_timer() from the Reset button, the user confirming.
reset_timer(i) ==
    /\ UI
    /\ i \in 1..Len(timers)
    /\ timers' = WithState(timers, i, reset_state(timers[i]))
    /\ disk' = persist_state(timers', settings, pending_worklogs)
    /\ last' = "reset_timer"
    /\ UNCHANGED <<alive, clock, pending_worklogs, settings, dialog, tasks, events,
                   posted, next_uid, removed>>

\* TimerRow.edit_duration() with the text the user entered.
edit_duration(i, value) ==
    /\ UI
    /\ i \in 1..Len(timers)
    /\ IF value = <<>> \/ parse_duration(value) = ValueError
       THEN /\ last' = "edit_duration:rejected"
            /\ UNCHANGED <<timers, disk>>
       ELSE /\ timers' = WithState(timers, i,
                                   edit_state(timers[i], parse_duration(value), clock))
            /\ disk' = persist_state(timers', settings, pending_worklogs)
            /\ last' = "edit_duration"
    /\ UNCHANGED <<alive, clock, pending_worklogs, settings, dialog, tasks, events,
                   posted, next_uid, removed>>

\* JiraStopWatchApp.on_issue_changed(row, issue_key): Return or focus-out of the
\* issue entry.
on_issue_changed(i, text) ==
    /\ UI
    /\ i \in 1..Len(timers)
    /\ LET issue_key == strip_key(text) IN
       IF issue_key = ""
       THEN /\ timers' = WithState(timers, i,
                            [timers[i] EXCEPT !.issue_key = "", !.description = ""])
            /\ disk' = persist_state(timers', settings, pending_worklogs)
            /\ UNCHANGED tasks
       ELSE /\ InFlight < MaxInFlight
            /\ timers' = WithState(timers, i, [timers[i] EXCEPT !.issue_key = issue_key])
            /\ tasks' = Append(tasks, Task("fetch", i, issue_key,
                                           NoWorklog, <<>>, <<>>))
            /\ UNCHANGED disk
    /\ last' = "on_issue_changed"
    /\ UNCHANGED <<alive, clock, pending_worklogs, settings, dialog, events,
                   posted, next_uid, removed>>

\* TimerRow.save_comment(): the Save button or focus-out of the comment entry.
save_comment(i, comment) ==
    /\ UI
    /\ i \in 1..Len(timers)
    /\ timers' = WithState(timers, i, [timers[i] EXCEPT !.comment = comment])
    /\ disk' = persist_state(timers', settings, pending_worklogs)
    /\ last' = "save_comment"
    /\ UNCHANGED <<alive, clock, pending_worklogs, settings, dialog, tasks, events,
                   posted, next_uid, removed>>

\* ---------------------------------------------------------------- settings --
\* open_settings_dialog(), the user saving complete settings.
open_settings_dialog ==
    /\ UI
    /\ settings' = [configured |-> TRUE, filter_cache |-> {}]
    /\ disk' = persist_state(timers, settings', pending_worklogs)
    /\ last' = "open_settings_dialog"
    /\ UNCHANGED <<alive, clock, timers, pending_worklogs, dialog, tasks, events,
                   posted, next_uid, removed>>

\* clear_settings(), the user confirming.
clear_settings ==
    /\ UI
    /\ settings' = AppSettings
    /\ disk' = persist_state(timers, settings', pending_worklogs)
    /\ last' = "clear_settings"
    /\ UNCHANGED <<alive, clock, timers, pending_worklogs, dialog, tasks, events,
                   posted, next_uid, removed>>

\* ------------------------------------------------------- pending worklogs --
\* save_worklog_for_later, had it put the new PendingWorklog first.
enqueue_first(queue, worklog, uid, now) ==
    <<[uid |-> uid, issue_key |-> worklog.issue_key,
       seconds |-> worklog.seconds, comment |-> worklog.comment,
       created_at |-> now]>> \o queue

\* The queue after save_worklog_for_later(worklog) appended PendingWorklog uid.
enqueue(queue, worklog, uid, now) ==
    Append(queue, [uid |-> uid, issue_key |-> worklog.issue_key,
                   seconds |-> worklog.seconds, comment |-> worklog.comment,
                   created_at |-> now])

\* The queue pending_worklogs.json holds when a handler that changed the queue
\* calls _update_pending_panel(): save_worklog_for_later,
\* remove_pending_by_indices and _pending_worklogs_posted each refresh the
\* panel first and call persist_state() after it, so it is the document of
\* before the handler, not the one the handler writes.
pending_at_refresh(before, written) == before

\* sorted(indices, reverse=True)
RECURSIVE sorted_reverse(_)
sorted_reverse(indices) ==
    IF indices = <<>> THEN <<>>
    ELSE LET k == CHOOSE k \in 1..Len(indices) :
                      \A j \in 1..Len(indices) : indices[j] <= indices[k]
         IN <<indices[k]>> \o sorted_reverse(RemoveAt(indices, k))

\* The loop of remove_pending_by_indices over the sorted indices.  A position
\* p of the model is index p - 1 of the list.
RECURSIVE pop_each(_, _)
pop_each(queue, indices) ==
    IF indices = <<>> THEN queue
    ELSE pop_each(IF 1 <= Head(indices) /\ Head(indices) <= Len(queue)
                  THEN RemoveAt(queue, Head(indices)) ELSE queue,
                  Tail(indices))

\* remove_pending_by_indices, had it popped the indices in the order given.
remove_pending_as_given(queue, indices) == pop_each(queue, indices)

\* The queue remove_pending_by_indices(indices) leaves.
remove_pending_by_indices(queue, indices) == pop_each(queue, sorted_reverse(indices))

\* listbox.curselection(): the selected positions, ascending.
RECURSIVE curselection(_)
curselection(S) ==
    IF S = {} THEN <<>>
    ELSE LET m == CHOOSE m \in S : \A n \in S : m <= n
         IN <<m>> \o curselection(S \ {m})

Selections == {S \in SUBSET (1..Len(pending_worklogs)) : S # {}}

\* ---------------------------------------------------------- worklog dialog --
\* JiraStopWatchApp.post_worklog(row) up to wait_window(dialog): the checks and
\* WorklogDialog.__init__, which formats row.current_seconds.
post_worklog(i) ==
    /\ UI
    /\ i \in 1..Len(timers)
    /\ LET state == timers[i] IN
       IF state.issue_key = ""
       THEN last' = "post_worklog:issue_missing" /\ UNCHANGED dialog
       ELSE IF ~settings.configured
       THEN last' = "post_worklog:configuration_missing" /\ UNCHANGED dialog
       ELSE IF current_seconds(state, clock) < 0
       THEN last' = "post_worklog:ValueError" /\ UNCHANGED dialog
       ELSE /\ dialog' = [open |-> TRUE, row |-> i,
                          time_var |-> format_duration(current_seconds(state, clock))]
            /\ last' = "post_worklog"
    /\ UNCHANGED <<alive, clock, timers, pending_worklogs, settings, tasks, events,
                   disk, posted, next_uid, removed>>

\* The Cancel button of the WorklogDialog.
dialog_cancel ==
    /\ alive
    /\ dialog.open
    /\ dialog' = NoDialog
    /\ last' = "WorklogDialog.cancel"
    /\ UNCHANGED <<alive, clock, timers, pending_worklogs, settings, tasks, events,
                   disk, posted, next_uid, removed>>

\* Worklog(...) as WorklogDialog._post builds it.
Worklog(issue_key, seconds, comment) ==
    [issue_key |-> issue_key, seconds |-> seconds, comment |-> comment]

\* WorklogDialog._post() and the rest of post_worklog(row): `text` is the
\* time-spent field as the user left it, `comment` the comment field.
dialog_post(text, comment, save_for_later) ==
    /\ alive
    /\ dialog.open
    /\ LET seconds == parse_duration(text)
           worklog == Worklog(timers[dialog.row].issue_key, seconds, comment)
       IN
       IF seconds = ValueError
       THEN /\ last' = "WorklogDialog._post:invalid_duration"
            /\ UNCHANGED <<dialog, pending_worklogs, tasks, disk, next_uid>>
       ELSE /\ CanEnqueue
            /\ dialog' = NoDialog
            /\ IF save_for_later
               THEN /\ pending_worklogs' = enqueue(pending_worklogs, worklog, next_uid, clock)
                    /\ next_uid' = next_uid + 1
                    /\ disk' = persist_state(timers, settings, pending_worklogs')
                    /\ last' = "save_worklog_for_later"
                    /\ UNCHANGED tasks
               ELSE /\ InFlight < MaxInFlight
                    /\ tasks' = Append(tasks, Task("post", dialog.row, "", worklog, <<>>, <<>>))
                    /\ last' = "post_worklog:posting"
                    /\ UNCHANGED <<pending_worklogs, disk, next_uid>>
    /\ UNCHANGED <<alive, clock, timers, settings, events, posted, removed>>

\* WorklogDialog._post, had it not parsed the new remaining estimate.
dialog_post_unchecked(text, remaining, comment, save_for_later) ==
    dialog_post(text, comment, save_for_later)

\* WorklogDialog._post() with "Adjust remaining estimate" set to new and
\* `remaining` in New remaining estimate: the field is parsed after the time
\* spent, and a text that does not parse ends _post with an error box.
dialog_post_new(text, remaining, comment, save_for_later) ==
    IF parse_duration(text) # ValueError /\ parse_duration(remaining) = ValueError
    THEN /\ alive
         /\ dialog.open
         /\ last' = "WorklogDialog._post:invalid_remaining_estimate"
         /\ UNCHANGED <<alive, clock, timers, pending_worklogs, settings, dialog, tasks,
                        events, disk, posted, next_uid, removed>>
    ELSE dialog_post(text, comment, save_for_later)

\* post_pending_worklogs, had it left out the entries Jira already has.
post_pending_unposted ==
    /\ UI
    /\ IF pending_worklogs = <<>>
       THEN last' = "post_pending_worklogs:nothing" /\ UNCHANGED tasks
       ELSE IF ~settings.configured
       THEN last' = "post_pending_worklogs:configuration_missing" /\ UNCHANGED tasks
       ELSE /\ InFlight < MaxInFlight
            /\ tasks' = Append(tasks, Task("post_all", 0, "", NoWorklog,
                                SelectSeq(pending_worklogs, LAMBDA w : posted[w.uid] = 0),
                                <<>>))
            /\ SelectSeq(pending_worklogs, LAMBDA w : posted[w.uid] = 0) # <<>>
            /\ last' = "post_pending_worklogs"
    /\ UNCHANGED <<alive, clock, timers, pending_worklogs, settings, dialog, events,
                   disk, posted, next_uid, removed>>

\* ------------------------------------------------------------ pending panel --
\* JiraStopWatchApp.post_pending_worklogs(): the toolbar button.
post_pending_worklogs ==
    /\ UI
    /\ IF pending_worklogs = <<>>
       THEN last' = "post_pending_worklogs:nothing" /\ UNCHANGED tasks
       ELSE IF ~settings.configured
       THEN last' = "post_pending_worklogs:configuration_missing" /\ UNCHANGED tasks
       ELSE /\ InFlight < MaxInFlight
            /\ tasks' = Append(tasks, Task("post_all", 0, "", NoWorklog,
                                           pending_worklogs, <<>>))
            /\ last' = "post_pending_worklogs"
    /\ UNCHANGED <<alive, clock, timers, pending_worklogs, settings, dialog, events,
                   disk, posted, next_uid, removed>>

\* PendingWorklogPanel._post_selected() with the positions S selected.
post_selected(S) ==
    /\ UI
    /\ S \in Selections
    /\ IF ~settings.configured
       THEN last' = "_post_selected:configuration_missing" /\ UNCHANGED tasks
       ELSE /\ InFlight < MaxInFlight
            /\ tasks' = Append(tasks,
                   Task("post_selected", 0, "", NoWorklog,
                        [k \in 1..Cardinality(S) |-> pending_worklogs[curselection(S)[k]]],
                        curselection(S)))
            /\ last' = "_post_selected"
    /\ UNCHANGED <<alive, clock, timers, pending_worklogs, settings, dialog, events,
                   disk, posted, next_uid, removed>>

\* PendingWorklogPanel._remove_selected() with the positions S selected.
remove_selected(S) ==
    /\ UI
    /\ S \in Selections
    /\ pending_worklogs' = remove_pending_by_indices(pending_worklogs, curselection(S))
    /\ removed' = removed \cup {pending_worklogs[p].uid : p \in S}
    /\ disk' = persist_state(timers, settings, pending_worklogs')
    /\ last' = "_remove_selected"
    /\ UNCHANGED <<alive, clock, timers, settings, dialog, tasks, events, posted, next_uid>>

\* ------------------------------------------------------ background threads --
\* JiraClient.is_configured() of the client the request of task t goes through:
\* timer_started hands the bound method of the client of that moment to the
\* thread, the other operations read self.client when they run.
client_configured(t) ==
    IF t.kind = "transition" THEN t.client ELSE settings.configured

Completed(t, ok) == [task |-> t, ok |-> ok]

\* The thread k, had it applied its result itself when its request returned:
\* the queue emptied and persisted from the background thread, no callback.
request_ok_applies(k) ==
    /\ alive
    /\ k \in 1..Len(tasks)
    /\ client_configured(tasks[k])
    /\ tasks' = RemoveAt(tasks, k)
    /\ pending_worklogs' = <<>>
    /\ disk' = persist_state(timers, settings, pending_worklogs')
    /\ UNCHANGED <<alive, clock, timers, settings, dialog, events, posted,
                   next_uid, removed, last>>

\* One request of thread k returns: JiraClient._request got a response < 400.
\* After its last request the thread schedules on_success with after(0, ...).
request_ok(k) ==
    /\ alive
    /\ k \in 1..Len(tasks)
    /\ client_configured(tasks[k])
    /\ LET t == tasks[k] IN
       IF t.kind \in {"post_all", "post_selected"}
       THEN /\ posted[t.items[t.done + 1].uid] < MaxPosts
            /\ posted' = [posted EXCEPT ![t.items[t.done + 1].uid] = @ + 1]
            /\ IF t.done + 1 = Len(t.items)
               THEN /\ tasks' = RemoveAt(tasks, k)
                    /\ events' = Append(events, Completed([t EXCEPT !.done = @ + 1], TRUE))
               ELSE /\ tasks' = [tasks EXCEPT ![k] = [t EXCEPT !.done = @ + 1]]
                    /\ UNCHANGED events
       ELSE /\ tasks' = RemoveAt(tasks, k)
            /\ events' = Append(events, Completed(t, TRUE))
            /\ UNCHANGED posted
    /\ UNCHANGED <<alive, clock, timers, pending_worklogs, settings, dialog, disk,
                   next_uid, removed, last>>

\* The request of thread k raises (not configured, network, HTTP status >= 400):
\* the thread schedules on_error with after(0, ...).
request_fail(k) ==
    /\ alive
    /\ k \in 1..Len(tasks)
    /\ tasks' = RemoveAt(tasks, k)
    /\ events' = Append(events, Completed(tasks[k], FALSE))
    /\ UNCHANGED <<alive, clock, timers, pending_worklogs, settings, dialog, disk,
                   posted, next_uid, removed, last>>

\* ----------------------------------------------- callbacks, on the owner thread --
\* The owner thread runs the oldest waiting callback, of operation `kind`.
Delivers(kind, ok) ==
    /\ alive
    /\ events # <<>>
    /\ Head(events).task.kind = kind
    /\ Head(events).ok = ok
    /\ events' = Tail(events)

\* _handle_error, had it dropped from the queue what the batch had posted
\* before the request that failed.
handle_error_drains(kind) ==
    /\ Delivers(kind, FALSE)
    /\ kind \in {"transition", "post_all", "post_selected"}
    /\ pending_worklogs' = SubSeq(pending_worklogs, Head(events).task.done + 1,
                                  Len(pending_worklogs))
    /\ disk' = persist_state(timers, settings, pending_worklogs')
    /\ last' = "_handle_error:" \o kind
    /\ UNCHANGED <<alive, clock, timers, settings, dialog, tasks,
                   posted, next_uid, removed>>

\* JiraStopWatchApp._handle_error(message, exc): it shows the error and persists.
handle_error(kind) ==
    /\ Delivers(kind, FALSE)
    /\ kind \in {"transition", "post_all", "post_selected"}
    /\ disk' = persist_state(timers, settings, pending_worklogs)
    /\ last' = "_handle_error:" \o kind
    /\ UNCHANGED <<alive, clock, timers, pending_worklogs, settings, dialog, tasks,
                   posted, next_uid, removed>>

\* timer_started's on_success: a status message.
transition_done ==
    /\ Delivers("transition", TRUE)
    /\ last' = "timer_started.on_success"
    /\ UNCHANGED <<alive, clock, timers, pending_worklogs, settings, dialog, tasks,
                   disk, posted, next_uid, removed>>

\* JiraStopWatchApp._apply_issue_details(row, issue).  A removed row (0) is an
\* object outside the registry: the writes to it change nothing of the model.
apply_issue_details ==
    /\ Delivers("fetch", TRUE)
    /\ LET t == Head(events).task
           i == t.row
       IN /\ timers' = IF i = 0 THEN timers
                       ELSE WithState(timers, i, [timers[i] EXCEPT
                                !.issue_key = t.key, !.description = Summary(t.key)])
          /\ settings' = [settings EXCEPT !.filter_cache = @ \cup {t.key}]
    /\ disk' = persist_state(timers', settings', pending_worklogs)
    /\ last' = "_apply_issue_details"
    /\ UNCHANGED <<alive, clock, pending_worklogs, dialog, tasks, posted, next_uid, removed>>

\* on_issue_changed's on_error: _handle_error(..., reset_description=True, row=row).
fetch_failed ==
    /\ Delivers("fetch", FALSE)
    /\ LET i == Head(events).task.row
       IN timers' = IF i = 0 THEN timers
                    ELSE WithState(timers, i, [timers[i] EXCEPT !.description = ""])
    /\ disk' = persist_state(timers', settings, pending_worklogs)
    /\ last' = "_handle_error:fetch"
    /\ UNCHANGED <<alive, clock, pending_worklogs, settings, dialog, tasks,
                   posted, next_uid, removed>>

\* The rows after row.reset_timer() as _worklog_posted calls it: reset_timer
\* asks "Reset tracked time for this issue?" and resets on yes only.
worklog_posted_rows(rows, i, confirm) ==
    IF i # 0 /\ confirm THEN WithState(rows, i, reset_state(rows[i])) ELSE rows

\* JiraStopWatchApp._worklog_posted(worklog, worklog_id, row).  On a removed
\* (destroyed) row reset_timer still asks, and a confirmed reset raises
\* TclError in _update_start_button (start_button.configure on a destroyed
\* widget), before either persist_state.
worklog_posted(confirm) ==
    /\ Delivers("post", TRUE)
    /\ LET i == Head(events).task.row
       IN /\ timers' = worklog_posted_rows(timers, i, confirm)
          /\ IF i = 0 /\ confirm
             THEN UNCHANGED disk
             ELSE disk' = persist_state(timers', settings, pending_worklogs)
    /\ last' = IF confirm /\ Head(events).task.row = 0 THEN "_worklog_posted:TclError"
               ELSE IF confirm THEN "_worklog_posted:yes"
               ELSE "_worklog_posted:no"
    /\ UNCHANGED <<alive, clock, pending_worklogs, settings, dialog, tasks,
                   posted, next_uid, removed>>

\* _handle_worklog_failure, had it reset the row as _worklog_posted does.
handle_worklog_failure_resets ==
    /\ Delivers("post", FALSE)
    /\ pending_worklogs' = enqueue(pending_worklogs, Head(events).task.worklog,
                                   next_uid, clock)
    /\ next_uid' = next_uid + 1
    /\ timers' = worklog_posted_rows(timers, Head(events).task.row, TRUE)
    /\ disk' = persist_state(timers', settings, pending_worklogs')
    /\ last' = "_handle_worklog_failure"
    /\ UNCHANGED <<alive, clock, settings, dialog, tasks, posted, removed>>

\* JiraStopWatchApp._handle_worklog_failure(worklog, exc).
handle_worklog_failure ==
    /\ Delivers("post", FALSE)
    /\ pending_worklogs' = enqueue(pending_worklogs, Head(events).task.worklog,
                                   next_uid, clock)
    /\ next_uid' = next_uid + 1
    /\ disk' = persist_state(timers, settings, pending_worklogs')
    /\ last' = "_handle_worklog_failure"
    /\ UNCHANGED <<alive, clock, timers, settings, dialog, tasks, posted, removed>>

\* The queue _pending_worklogs_posted leaves: self.pending_worklogs.clear().
drained(queue, items) == <<>>

\* JiraStopWatchApp._pending_worklogs_posted(ids).
pending_worklogs_posted ==
    /\ Delivers("post_all", TRUE)
    /\ pending_worklogs' = drained(pending_worklogs, Head(events).task.items)
    /\ disk' = persist_state(timers, settings, pending_worklogs')
    /\ last' = "_pending_worklogs_posted"
    /\ UNCHANGED <<alive, clock, timers, settings, dialog, tasks, posted, next_uid, removed>>

\* _post_selected's _on_success(ids): remove_pending_by_indices(indices), with
\* the positions selected when the operation started.
selected_posted ==
    /\ Delivers("post_selected", TRUE)
    /\ pending_worklogs' = remove_pending_by_indices(pending_worklogs,
                                                     Head(events).task.indices)
    /\ disk' = persist_state(timers, settings, pending_worklogs')
    /\ last' = "_post_selected._on_success"
    /\ UNCHANGED <<alive, clock, timers, settings, dialog, tasks, posted, next_uid, removed>>

\* ---------------------------------------------------------------- lifecycle --
\* The rows after prepare_for_exit() on every row.
prepared_rows(rows, now) ==
    [j \in 1..Len(rows) |-> prepare_state(rows[j], now)]

\* The process is gone: its memory, threads and callbacks with it.
Gone ==
    /\ alive' = FALSE
    /\ timers' = <<>>
    /\ pending_worklogs' = <<>>
    /\ settings' = AppSettings
    /\ dialog' = NoDialog
    /\ tasks' = <<>>
    /\ events' = <<>>

\* JiraStopWatchApp.on_close(): WM_DELETE_WINDOW or File > Exit.
on_close ==
    /\ UI
    /\ disk' = persist_state(prepared_rows(timers, clock), settings, pending_worklogs)
    /\ Gone
    /\ last' = "on_close"
    /\ UNCHANGED <<clock, posted, next_uid, removed>>

\* The process ends without on_close (killed, crash, power loss).
kill ==
    /\ alive
    /\ Gone
    /\ last' = "kill"
    /\ UNCHANGED <<clock, disk, posted, next_uid, removed>>

\* The rows _load_timers builds from the loaded states.
load_timers(states, now) ==
    LET loaded == IF states = <<>> THEN <<TimerState>> ELSE states
    IN [j \in 1..Len(loaded) |-> load_state_fold(loaded[j], now)]

\* JiraStopWatchApp.__init__(): the next start of the application.
launch ==
    /\ ~alive
    /\ alive' = TRUE
    /\ settings' = disk.settings
    /\ pending_worklogs' = disk.pending
    /\ timers' = load_timers(disk.timers, clock)
    /\ last' = "__init__"
    /\ UNCHANGED <<clock, dialog, tasks, events, disk, posted, next_uid, removed>>

\* ------------------------------------------------------------ specification --
\* The wall clock moves.
ClockNext(max_clock, max_seconds) ==
    \/ Advance(max_clock, max_seconds)
    \/ SetBack

\* The buttons and entries of one timer row, with the texts the user may type.
RowNext(rows, durations, issues) ==
    \/ \E i \in 1..rows : toggle_timer(i)
    \/ \E i \in 1..rows : reset_timer(i)
    \/ \E i \in 1..rows : \E value \in durations : edit_duration(i, value)
    \/ \E i \in 1..rows : \E text \in issues : on_issue_changed(i, text)

\* The toolbar and the Remove button: the registry of rows.
RegistryNext(rows) ==
    \/ add_timer(rows)
    \/ \E i \in 1..rows : remove_timer(i)
    \/ pause_all
    \/ reset_all_timers
    \/ remove_all_timers

\* The File menu's settings entries.
SettingsNext ==
    \/ open_settings_dialog
    \/ clear_settings

\* The Post button of a row and the WorklogDialog.
DialogNext(rows, durations, comments) ==
    \/ \E i \in 1..rows : post_worklog(i)
    \/ dialog_cancel
    \/ \E text \in durations \cup {dialog.time_var} :
           \E comment \in comments : \E later \in BOOLEAN :
               dialog_post(text, comment, later)

\* The pending-worklog panel and the toolbar's Post Pending Worklogs.
PendingNext ==
    \/ post_pending_worklogs
    \/ \E S \in Selections : post_selected(S)
    \/ \E S \in Selections : remove_selected(S)

\* The requests of the background threads while the client is not configured:
\* JiraClient._request raises before any request is sent.
FailingRequests ==
    \E k \in 1..MaxInFlight : request_fail(k)

\* The requests of the background threads.
RequestNext ==
    \/ \E k \in 1..MaxInFlight : request_ok(k)
    \/ \E k \in 1..MaxInFlight : request_fail(k)

\* The callbacks of the operations a timer row starts.
RowCallbacks ==
    \/ handle_error("transition")
    \/ transition_done
    \/ apply_issue_details
    \/ fetch_failed

\* The error callbacks of the operations a timer row starts.
RowErrorCallbacks ==
    \/ handle_error("transition")
    \/ fetch_failed

\* The callbacks of an immediate worklog post.
PostCallbacks ==
    \/ \E confirm \in BOOLEAN : worklog_posted(confirm)
    \/ handle_worklog_failure

\* The callbacks of the posts of pending worklogs.
PendingCallbacks ==
    \/ \E kind \in {"post_all", "post_selected"} : handle_error(kind)
    \/ pending_worklogs_posted
    \/ selected_posted

\* The process ends and starts again.
LifecycleNext ==
    \/ on_close
    \/ kill
    \/ launch

\* The application: every handler, thread step and callback.
Next ==
    \/ ClockNext(MaxClock, MaxSeconds)
    \/ RowNext(MaxRows, DurationInputs, IssueInputs)
    \/ \E i \in 1..MaxRows : \E comment \in Comments : save_comment(i, comment)
    \/ RegistryNext(MaxRows)
    \/ SettingsNext
    \/ DialogNext(MaxRows, DurationInputs, Comments)
    \/ PendingNext
    \/ RequestNext
    \/ RowCallbacks
    \/ PostCallbacks
    \/ PendingCallbacks
    \/ LifecycleNext

Spec == Init /\ [][Next]_vars

\* --------------------------------------------------------------- the registry --
\* The registry's operations from the first start on, the user never opening
\* the settings dialog (the client stays unconfigured, so every request
\* raises), at one clock reading.
RegistryDurations == {<<"1", "s">>, <<"2">>}
RegistryIssues == {"", "A"}

SpecRegistry ==
    Init /\ [][\/ RowNext(MaxRows, RegistryDurations, RegistryIssues)
               \/ RegistryNext(MaxRows)
               \/ FailingRequests
               \/ RowErrorCallbacks]_vars

\* C3: from the registry the application starts with (one idle row), under add,
\* start, pause, toggle, reset, edit duration, issue change, remove, pause all,
\* reset all and remove all, at most one timer is running in every state; and
\* a start of row i leaves row i running and every other row idle.
C3_last_start_wins ==
    /\ [](Cardinality({i \in 1..Len(timers) : timers[i].running}) <= 1)
    /\ [][\A i \in 1..Len(timers) :
            (~timers[i].running /\ timers[i].issue_key # "" /\ start_timer(i))
                => {j \in 1..Len(timers') : timers'[j].running} = {i}]_vars

\* A row was started while another row ran, and it is the only one running.
C3_witness ==
    /\ last = "start_timer:paused_other"
    /\ Len(timers) >= 2
    /\ Cardinality({i \in 1..Len(timers) : timers[i].running}) = 1

\* ------------------------------------------------------------------ one timer --
\* One row through its life: the issue key is entered, the timer is started,
\* paused, edited and reset while the wall clock moves forward and is set
\* back, and the application is closed, killed and started again.  The client
\* is not configured, so every request raises.
TimingClock == 6
TimingDurations == {<<>>, <<"0", "s">>, <<"1", "s">>}

SpecTiming ==
    Init /\ [][\/ ClockNext(TimingClock, MaxSeconds)
               \/ RowNext(MaxRows, TimingDurations, {"A"})
               \/ pause_all
               \/ reset_all_timers
               \/ FailingRequests
               \/ RowErrorCallbacks
               \/ LifecycleNext]_vars

\* C7: a start of the application that loads a running timer with seconds A
\* and run start T at clock reading now leaves it running with run start now,
\* and current_seconds right after is A plus the whole seconds of now - T, A
\* when now < T.  on_close leaves on disk, for a running timer, the seconds
\* with the whole seconds since its run start added and the run start moved
\* to the time of the close, so that the next start credits only the time
\* since the close.
C7_restore_credits_gap_once ==
    [][/\ launch =>
            \A i \in 1..Len(disk.timers) :
                (disk.timers[i].running /\ disk.timers[i].last_started # None) =>
                    /\ timers'[i].running
                    /\ timers'[i].last_started = clock
                    /\ current_seconds(timers'[i], clock')
                         = disk.timers[i].seconds
                           + (IF clock < disk.timers[i].last_started THEN 0
                              ELSE (clock - disk.timers[i].last_started)
                                       \div TicksPerSecond)
       /\ on_close =>
            \A i \in 1..Len(timers) :
                (timers[i].running /\ timers[i].last_started # None) =>
                    /\ disk'.timers[i].running
                    /\ disk'.timers[i].last_started = clock
                    /\ disk'.timers[i].seconds
                         = timers[i].seconds
                           + (IF clock < timers[i].last_started THEN 0
                              ELSE (clock - timers[i].last_started)
                                       \div TicksPerSecond)]_vars

\* The application was closed while a timer ran and started again a second or
\* more later: the timer runs, its run start is the time of the start, and it
\* has the seconds of both gaps.
C7_witness ==
    /\ last = "__init__"
    /\ \E i \in 1..Len(timers) :
        /\ timers[i].running
        /\ timers[i].last_started = clock
        /\ i \in 1..Len(disk.timers)
        /\ disk.timers[i].running
        /\ clock - disk.timers[i].last_started >= TicksPerSecond
        /\ disk.timers[i].seconds >= 1
        /\ timers[i].seconds = MaxSeconds

\* C8: in every state, for every timer, current_seconds and the seconds
\* refresh_display shows are the accumulated seconds plus max(0, now - run
\* start) when the timer runs, and the accumulated seconds when it is idle; in
\* particular never less than the accumulated seconds.
C8_elapsed_is_clamped ==
    alive =>
        \A i \in 1..Len(timers) :
            LET expected ==
                    timers[i].seconds
                    + (IF timers[i].running
                       THEN Max(0, Trunc(clock - timers[i].last_started)) ELSE 0)
            IN /\ current_seconds(timers[i], clock) = expected
               /\ refresh_display(timers[i], clock) = expected
               /\ current_seconds(timers[i], clock) >= timers[i].seconds

\* C10: in every state, for every timer in memory and every timer on disk, the
\* run start is set exactly when the timer is running.
C10_run_start_iff_running ==
    \A st \in Range(timers) \cup Range(disk.timers) :
        (st.last_started # None) <=> st.running

\* A timer that ran when the application was closed is running again after the
\* next start, its run start set; the state on disk was written by on_close.
C10_witness ==
    /\ last = "__init__"
    /\ \E i \in 1..Len(timers) :
        /\ timers[i].running
        /\ timers[i].last_started = clock
        /\ disk.timers[i].running
        /\ disk.timers[i].last_started < clock
        /\ disk.timers[i].seconds > 0

\* ------------------------------------------------------- start/pause cycles --
\* One row is started and paused again and again while time passes.
SpecCycles ==
    Init /\ [][\/ Advance(TimingClock, MaxSeconds)
               \/ \E i \in 1..MaxRows : on_issue_changed(i, "A")
               \/ \E i \in 1..MaxRows : toggle_timer(i)
               \/ FailingRequests
               \/ RowErrorCallbacks]_vars

\* C9: a pause that ends a run of d whole seconds adds exactly d to the
\* timer's seconds, and current_seconds right after the pause is that sum; a
\* start leaves the seconds as they are, and time that passes while the timer
\* is idle leaves current_seconds as it is.  From 0 seconds, current_seconds
\* after the n-th pause is therefore d1 + ... + dn, whatever n and the idle gaps.
C9_cycles_add_up ==
    [][\A i \in 1..Len(timers) :
        /\ (/\ timers[i].running
            /\ pause_timer(i)
            /\ clock >= timers[i].last_started
            /\ (clock - timers[i].last_started) % TicksPerSecond = 0)
           => /\ timers'[i].seconds
                   = timers[i].seconds
                     + (clock - timers[i].last_started) \div TicksPerSecond
              /\ current_seconds(timers'[i], clock') = timers'[i].seconds
        /\ (~timers[i].running /\ timers[i].issue_key # "" /\ start_timer(i))
           => /\ timers'[i].seconds = timers[i].seconds
              /\ current_seconds(timers'[i], clock') = timers[i].seconds
        /\ (~timers[i].running /\ clock' # clock)
           => /\ i \in 1..Len(timers')
              /\ current_seconds(timers'[i], clock')
                   = current_seconds(timers[i], clock)]_vars

\* The pause of a second run: it lasted one second and the timer had a second
\* from the run before.
C9_witness ==
    /\ last = "pause_timer:1"
    /\ \E i \in 1..Len(timers) : ~timers[i].running /\ timers[i].seconds = 2

\* ------------------------------------------------------------ worklog posts --
\* The application as it starts when an earlier session left settings.json
\* with complete Jira access and state.json with one idle timer for issue A.
InitWorking ==
    LET rows == <<[TimerState EXCEPT !.issue_key = "A", !.description = Summary("A")]>>
        st == [configured |-> TRUE, filter_cache |-> {"A"}]
    IN /\ alive = TRUE
       /\ clock = 1
       /\ timers = load_timers(rows, clock)
       /\ pending_worklogs = <<>>
       /\ settings = st
       /\ dialog = NoDialog
       /\ tasks = <<>>
       /\ events = <<>>
       /\ disk = persist_state(rows, st, <<>>)
       /\ posted = [u \in 1..MaxPending |-> 0]
       /\ next_uid = 1
       /\ removed = {}
       /\ last = "__init__"

\* What the user leaves in the time-spent field besides the prefilled text.
PostDurations == {<<"1", "s">>}

\* The timer of that row is started and paused while time passes, and its
\* worklog is posted or saved for later from the WorklogDialog.
SpecPost ==
    InitWorking /\ [][\/ Advance(MaxClock, MaxSeconds)
                      \/ \E i \in 1..MaxRows : toggle_timer(i)
                      \/ DialogNext(MaxRows, PostDurations, {"c"})
                      \/ RequestNext
                      \/ handle_error("transition")
                      \/ transition_done
                      \/ PostCallbacks]_vars

\* C2: the failure callback of an immediate post appends exactly one
\* PendingWorklog at the end of the queue, with the issue key, the seconds and
\* the comment of the worklog that was attempted, and leaves every timer's
\* seconds, running flag and run start as they were.
C2_failed_post_is_queued ==
    [][handle_worklog_failure =>
        LET attempted == Head(events).task.worklog
            n == Len(pending_worklogs)
        IN /\ Len(pending_worklogs') = n + 1
           /\ SubSeq(pending_worklogs', 1, n) = pending_worklogs
           /\ pending_worklogs'[n + 1].issue_key = attempted.issue_key
           /\ pending_worklogs'[n + 1].seconds = attempted.seconds
           /\ pending_worklogs'[n + 1].comment = attempted.comment
           /\ Len(timers') = Len(timers)
           /\ \A i \in 1..Len(timers) :
                /\ timers'[i].seconds = timers[i].seconds
                /\ timers'[i].running = timers[i].running
                /\ timers'[i].last_started = timers[i].last_started]_vars

\* A post of one second with a comment failed while the queue held an entry
\* and the timer ran with a second tracked before: the worklog is the second
\* entry, the timer still runs.
C2_witness ==
    /\ last = "_handle_worklog_failure"
    /\ Len(pending_worklogs) = 2
    /\ pending_worklogs[2].issue_key = "A"
    /\ pending_worklogs[2].seconds = 1
    /\ pending_worklogs[2].comment = "c"
    /\ \E i \in 1..Len(timers) :
        timers[i].running /\ timers[i].seconds = 1 /\ timers[i].last_started # None

\* C5: when the user saves a worklog for later, the worklog is appended to the
\* queue, no background operation is started, and the timer of the row is
\* reset: 0 seconds, not running, no run start.
C5_defer_resets_timer ==
    [][\A text \in DurationInputs \cup {dialog.time_var} : \A comment \in Comments :
        (/\ dialog.open
         /\ parse_duration(text) # ValueError
         /\ dialog_post(text, comment, TRUE))
        => /\ Len(pending_worklogs') = Len(pending_worklogs) + 1
           /\ tasks' = tasks
           /\ timers'[dialog.row].seconds = 0
           /\ ~timers'[dialog.row].running
           /\ timers'[dialog.row].last_started = None]_vars

\* C6: the success callback of an immediate post leaves the timer of the row
\* with 0 seconds, not running and without run start, and that state on disk,
\* whatever the user answers to a question.
C6_posted_resets_timer ==
    [][\A confirm \in BOOLEAN :
        (/\ events # <<>>
         /\ Head(events).task.row # 0
         /\ worklog_posted(confirm))
        => /\ timers'[Head(events).task.row].seconds = 0
           /\ ~timers'[Head(events).task.row].running
           /\ timers'[Head(events).task.row].last_started = None
           /\ disk'.timers = timers']_vars

\* ------------------------------------------------------------ pending queue --
\* Worklogs of that row are saved for later or fail to post, and the pending
\* queue is posted, posted in part and pruned from the pending panel, at one
\* clock reading.
SpecQueue ==
    InitWorking /\ [][\/ DialogNext(MaxRows, {}, {"c"})
                      \/ PendingNext
                      \/ RequestNext
                      \/ PostCallbacks
                      \/ PendingCallbacks]_vars

\* C1: a pending worklog leaves the queue only if that entry was posted to Jira
\* or the user removed it; an entry saved for later while a batch of all
\* pending worklogs is in flight is still queued after the batch's success
\* callback.
C1_entries_leave_posted_or_removed ==
    [][\A p \in 1..Len(pending_worklogs) :
        (\A q \in 1..Len(pending_worklogs') :
            pending_worklogs'[q].uid # pending_worklogs[p].uid)
        => \/ pending_worklogs[p].uid \in removed'
           \/ posted'[pending_worklogs[p].uid] >= 1]_vars

\* ---------------------------------------------------------- batch of all --
\* The pending queue with the toolbar's Post Pending Worklogs only: worklogs
\* are saved for later or fail to post, entries are removed from the panel,
\* and the whole queue is posted as one batch.
SpecBatch ==
    InitWorking /\ [][\/ DialogNext(MaxRows, {}, {"c"})
                      \/ post_pending_worklogs
                      \/ \E S \in Selections : remove_selected(S)
                      \/ RequestNext
                      \/ PostCallbacks
                      \/ handle_error("post_all")
                      \/ pending_worklogs_posted]_vars

\* C4: a request of a background thread leaves the queue as it is, and so does
\* the error callback of a batch of all pending worklogs, whichever of its
\* requests failed: the queue still holds every entry, in order.  The success
\* callback, which empties the queue, runs only after every entry of the batch
\* was posted.
C4_batch_drains_all_or_nothing ==
    [][/\ (\E k \in 1..Len(tasks) : request_ok(k) \/ request_fail(k))
            => pending_worklogs' = pending_worklogs
       /\ handle_error("post_all") => pending_worklogs' = pending_worklogs
       /\ pending_worklogs_posted =>
            /\ Head(events).task.done = Len(Head(events).task.items)
            /\ \A k \in 1..Len(Head(events).task.items) :
                   posted[Head(events).task.items[k].uid] >= 1]_vars

\* A batch of two entries failed at the second: the first was posted, the
\* second was not, and both are queued in their order after the error callback.
C4_witness ==
    /\ last = "_handle_error:post_all"
    /\ Len(pending_worklogs) = 2
    /\ pending_worklogs[1].uid < pending_worklogs[2].uid
    /\ posted[pending_worklogs[1].uid] = 1
    /\ posted[pending_worklogs[2].uid] = 0
    /\ removed = {}

\* ------------------------------------------------------------ two timers --
\* Rows are added, given an issue key, started and paused while the wall
\* clock moves forward and is set back.  The client is not configured, so
\* every request raises.
SpecHandover ==
    Init /\ [][\/ ClockNext(MaxClock, MaxSeconds)
               \/ add_timer(MaxRows)
               \/ \E i \in 1..MaxRows : on_issue_changed(i, "A")
               \/ \E i \in 1..MaxRows : toggle_timer(i)
               \/ FailingRequests
               \/ RowErrorCallbacks]_vars

\* C11: a start of row i at clock reading t while row j runs with seconds a and
\* run start s leaves row j idle with the whole seconds of t - s added to a (a
\* itself when t < s) and no run start, as pause_timer at t would, and leaves
\* row i running with run start t and its seconds as they were.
C11_start_pauses_other_once ==
    [][\A i \in 1..Len(timers) : \A j \in 1..Len(timers) :
        (/\ j # i
         /\ timers[j].running
         /\ ~timers[i].running
         /\ timers[i].issue_key # ""
         /\ start_timer(i))
        => /\ ~timers'[j].running
           /\ timers'[j].last_started = None
           /\ timers'[j].seconds
                = timers[j].seconds
                  + (IF clock < timers[j].last_started THEN 0
                     ELSE (clock - timers[j].last_started) \div TicksPerSecond)
           /\ timers'[j] = pause_state(timers[j], clock)
           /\ timers'[i].running
           /\ timers'[i].last_started = clock
           /\ timers'[i].seconds = timers[i].seconds]_vars

\* The second row was started a second after the first: the first is idle
\* with that second, the second runs from now on.
C11_witness ==
    /\ last = "start_timer:paused_other"
    /\ Len(timers) >= 2
    /\ ~timers[1].running
    /\ timers[1].last_started = None
    /\ timers[1].seconds = 1
    /\ timers[2].running
    /\ timers[2].last_started = clock
    /\ timers[2].seconds = 0
    /\ clock = 1 + TicksPerSecond

\* C12: on_close leaves on disk, for every running timer, the timer still
\* running with the close time as run start and with the current_seconds it
\* had before the close; every idle timer as it was; and the settings and the
\* pending queue of the memory.
C12_close_folds_and_persists ==
    [][on_close =>
        /\ Len(disk'.timers) = Len(timers)
        /\ \A i \in 1..Len(timers) :
            IF timers[i].running
            THEN /\ disk'.timers[i].running
                 /\ disk'.timers[i].last_started = clock
                 /\ current_seconds(disk'.timers[i], clock)
                      = current_seconds(timers[i], clock)
            ELSE disk'.timers[i] = timers[i]
        /\ disk'.settings = settings
        /\ disk'.pending = pending_worklogs]_vars

\* C13: a handler that changes the pending queue persists the new queue, and
\* at the moment it refreshes the pending-worklog panel with the new queue
\* pending_worklogs.json already holds that queue.
C13_persist_before_display ==
    [][(alive' /\ pending_worklogs' # pending_worklogs) =>
        /\ disk'.pending = pending_worklogs'
        /\ pending_at_refresh(disk.pending, disk'.pending) = pending_worklogs']_vars

\* ------------------------------------------------- remove_pending_by_indices --
\* The application as it starts when an earlier session left
\* pending_worklogs.json with up to RemoveLen entries.
RemoveLen == 3

QueuedEntries ==
    [issue_key : {"A", "B"}, seconds : {0, 1}, comment : {"c"}, created_at : {1}]

InitQueued ==
    /\ alive = TRUE
    /\ clock = 1
    /\ timers = <<TimerState>>
    /\ \E n \in 0..RemoveLen : \E entries \in [1..n -> QueuedEntries] :
        pending_worklogs =
            [k \in 1..n |->
                [uid |-> k, issue_key |-> entries[k].issue_key,
                 seconds |-> entries[k].seconds, comment |-> entries[k].comment,
                 created_at |-> entries[k].created_at]]
    /\ settings = AppSettings
    /\ dialog = NoDialog
    /\ tasks = <<>>
    /\ events = <<>>
    /\ disk = persist_state(<<>>, AppSettings, pending_worklogs)
    /\ posted = [u \in 1..MaxPending |-> 0]
    /\ next_uid = Len(pending_worklogs) + 1
    /\ removed = {}
    /\ last = "__init__"

\* The ways to hand the positions of a set S of positions of a queue of n
\* entries to remove_pending_by_indices: S in any order.
IndexOrders(n) ==
    {indices \in UNION {[1..m -> 1..n] : m \in 0..n} :
        \A a \in 1..Len(indices) : \A b \in 1..Len(indices) :
            a # b => indices[a] # indices[b]}

\* JiraStopWatchApp.remove_pending_by_indices(indices), called with the
\* positions in the order `indices`.
remove_by_indices(indices) ==
    /\ UI
    /\ pending_worklogs' = remove_pending_by_indices(pending_worklogs, indices)
    /\ disk' = persist_state(timers, settings, pending_worklogs')
    /\ last' = "remove_pending_by_indices"
    /\ UNCHANGED <<alive, clock, timers, settings, dialog, tasks, events, posted,
                   next_uid, removed>>

SpecRemove ==
    InitQueued /\ [][\E indices \in IndexOrders(Len(pending_worklogs)) :
                        remove_by_indices(indices)]_vars

\* C14: remove_pending_by_indices, called with the positions of a set S of
\* valid positions in any order, leaves exactly the entries at the positions
\* outside S, in their order: the same queue for every order of S.
C14_removes_the_set ==
    [][\A indices \in IndexOrders(Len(pending_worklogs)) :
        remove_by_indices(indices) =>
            LET S == {indices[a] : a \in 1..Len(indices)}
                n == Len(pending_worklogs)
                kept == n - Cardinality(S)
                \* the position of the k-th entry that stays
                at(k) == CHOOSE p \in (1..n) \ S :
                             Cardinality({q \in (1..p) \ S : TRUE}) = k
            IN /\ Len(pending_worklogs') = kept
               /\ \A k \in 1..kept : pending_worklogs'[k] = pending_worklogs[at(k)]]_vars

\* The first and the last entry were removed from a queue of three entries.
C14_witness ==
    /\ last = "remove_pending_by_indices"
    /\ next_uid = 4
    /\ Len(pending_worklogs) = 1
    /\ pending_worklogs[1].uid = 2
    /\ disk.pending = pending_worklogs

\* --------------------------------------------------------- format_duration --
\* The application as it starts, at the last clock reading, when an earlier
\* session left complete settings and one timer for issue A, idle or running
\* when that session was closed at this reading, with any of CodecSeconds
\* tracked: every mix of no, one and many days, hours, minutes and
\* seconds, and every number of seconds up to CodecRun.
CodecDays == 12
CodecRun == 130

CodecSeconds ==
    {d * SECONDS_PER_DAY + h * SECONDS_PER_HOUR + m * SECONDS_PER_MINUTE + x :
        d \in {0, 1, CodecDays}, h \in {0, 1, 23}, m \in {0, 1, 59}, x \in {0, 1, 59}}
    \cup 0..CodecRun

InitCodec ==
    \E s \in CodecSeconds, r \in BOOLEAN :
        LET rows == <<[TimerState EXCEPT !.issue_key = "A", !.description = Summary("A"),
                                         !.seconds = s, !.running = r,
                                         !.last_started = IF r THEN MaxClock ELSE None]>>
            st == [configured |-> TRUE, filter_cache |-> {"A"}]
        IN /\ alive = TRUE
           /\ clock = MaxClock
           /\ timers = load_timers(rows, clock)
           /\ pending_worklogs = <<>>
           /\ settings = st
           /\ dialog = NoDialog
           /\ tasks = <<>>
           /\ events = <<>>
           /\ disk = persist_state(rows, st, <<>>)
           /\ posted = [u \in 1..MaxPending |-> 0]
           /\ next_uid = 1
           /\ removed = {}
           /\ last = "__init__"

\* The wall clock is set back, and the WorklogDialog is opened, cancelled, and left with the prefilled time spent
\* saved for later.
SpecFormat ==
    InitCodec /\ [][\/ SetBack
                    \/ \E i \in 1..MaxRows : post_worklog(i)
                    \/ dialog_cancel
                    \/ dialog_post(dialog.time_var, "c", TRUE)]_vars

\* C15: the text format_duration makes of s >= 0 seconds, which the
\* WorklogDialog shows as time spent, is parsed by parse_duration to s: the
\* dialog's text parses to the current_seconds it was made of, and the worklog
\* saved for later from the untouched text has those seconds.
C15_parse_of_format ==
    [][/\ \A i \in 1..Len(timers) :
            (post_worklog(i) /\ dialog'.open)
                => /\ current_seconds(timers[i], clock) >= 0
                   /\ parse_duration(dialog'.time_var) = current_seconds(timers[i], clock)
                   /\ parse_duration(format_duration(timers[i].seconds)) = timers[i].seconds
       /\ (dialog.open /\ dialog_post(dialog.time_var, "c", TRUE))
            => /\ Len(pending_worklogs') = Len(pending_worklogs) + 1
               /\ format_duration(pending_worklogs'[Len(pending_worklogs')].seconds)
                    = dialog.time_var]_vars

\* A worklog of 1d 1h 1m 1s was saved for later from the prefilled text.
C15_witness ==
    /\ last = "save_worklog_for_later"
    /\ pending_worklogs # <<>>
    /\ pending_worklogs[1].seconds = 90061
    /\ \E i \in 1..Len(timers) : timers[i].seconds = 90061

\* ---------------------------------------------------------- parse_duration --
\* What the user may have typed into Time spent of the WorklogDialog: every
\* text of up to four of the characters 1 2 d h m s x and the blank, every two
\* tokens of a digit and a suffix with a blank between them, and 2h 30m,
\* 30m 2h and 2h30m.
TextChars == {"1", "2", "d", "h", "m", "s", "x", " "}

Pieces == {<<>>} \cup {<<c>> : c \in TextChars}

CodecTexts ==
    {a \o b \o c \o d : a \in Pieces, b \in Pieces, c \in Pieces, d \in Pieces}
    \cup {<<a, u, " ", b, v>> : a \in {"1", "2"}, b \in {"1", "2"},
                                u \in {"d", "h", "m", "s"}, v \in {"d", "h", "m", "s"}}
    \cup {<<"2", "h", " ", "3", "0", "m">>, <<"3", "0", "m", " ", "2", "h">>,
          <<"2", "h", "3", "0", "m">>}

\* The WorklogDialog is open on the timer for issue A, and the user has put a
\* text into Time spent.
InitTyped ==
    \E text \in CodecTexts :
        LET rows == <<[TimerState EXCEPT !.issue_key = "A", !.description = Summary("A")]>>
            st == [configured |-> TRUE, filter_cache |-> {"A"}]
        IN /\ alive = TRUE
           /\ clock = 1
           /\ timers = rows
           /\ pending_worklogs = <<>>
           /\ settings = st
           /\ dialog = [open |-> TRUE, row |-> 1, time_var |-> text]
           /\ tasks = <<>>
           /\ events = <<>>
           /\ disk = persist_state(rows, st, <<>>)
           /\ posted = [u \in 1..MaxPending |-> 0]
           /\ next_uid = 1
           /\ removed = {}
           /\ last = "post_worklog"

\* The user saves the worklog for later with the text as typed, or cancels.
SpecParse ==
    InitTyped /\ [][\/ dialog_post(dialog.time_var, "c", TRUE)
                    \/ dialog_cancel]_vars

\* The seconds one unit of a suffix stands for.
UnitSeconds(suffix) ==
    IF suffix = "d" THEN 86400
    ELSE IF suffix = "h" THEN 3600
    ELSE IF suffix = "m" THEN 60
    ELSE 1

\* The positions of text that hold neither a blank nor a tab nor a line end.
Inked(text) == {j \in 1..Len(text) : text[j] \notin {" ", "\t", "\n"}}

\* The decimal number written at positions from..to of text, read from the
\* left with `seen` the number read so far.
RECURSIVE NumberAt(_, _, _, _)
NumberAt(text, from, to, seen) ==
    IF from > to THEN seen
    ELSE NumberAt(text, from + 1, to, 10 * seen + DigitValue(text[from]))

\* The sum of value * unit over the <integer><suffix> tokens of text.
RECURSIVE TokenSum(_, _)
TokenSum(text, upto) ==
    IF upto = 0 THEN 0
    ELSE IF text[upto] \in {"d", "h", "m", "s"}
    THEN LET from == CHOOSE k \in 1..upto :
                         /\ \A p \in k..(upto - 1) : isdigit(text[p])
                         /\ k = 1 \/ ~isdigit(text[k - 1])
         IN NumberAt(text, from, upto - 1, 0) * UnitSeconds(text[upto]) + TokenSum(text, from - 1)
    ELSE TokenSum(text, upto - 1)

\* The inputs parse_duration is to fail on: empty or whitespace only; a suffix
\* without digits before it; whitespace after digits; a suffix that is none of
\* d h m s; digits at the end.
Unparsable(text) ==
    \/ Inked(text) = {}
    \/ \E j \in Inked(text) :
        \/ ~isdigit(text[j]) /\ (j = 1 \/ ~isdigit(text[j - 1]))
        \/ ~isdigit(text[j]) /\ text[j] \notin {"d", "h", "m", "s"}
        \/ isdigit(text[j]) /\ j < Len(text) /\ j + 1 \notin Inked(text)
                            /\ \E k \in Inked(text) : k > j
        \/ isdigit(text[j]) /\ \A k \in Inked(text) : k <= j

\* C16: parse_duration returns the sum of value * unit over the
\* <integer><suffix> tokens of its input (d 86400, h 3600, m 60, s 1), in any
\* order, repeated suffixes added up, whitespace between tokens optional, and
\* it fails exactly when the input is empty or whitespace only, has a suffix
\* without digits before it, whitespace between digits and their suffix, a
\* suffix that is none of d h m s, or digits at its end: the WorklogDialog
\* rejects exactly those texts and stays open, and of every other text it
\* hands on a worklog of that sum.
C16_parse_sums_tokens ==
    [][dialog_post(dialog.time_var, "c", TRUE) =>
        LET text == dialog.time_var IN
        IF Unparsable(text)
        THEN /\ parse_duration(text) = ValueError
             /\ dialog' = dialog
             /\ pending_worklogs' = pending_worklogs
             /\ last' = "WorklogDialog._post:invalid_duration"
        ELSE /\ parse_duration(text) = TokenSum(text, Len(text))
             /\ ~dialog'.open
             /\ Len(pending_worklogs') = Len(pending_worklogs) + 1
             /\ pending_worklogs'[Len(pending_worklogs')].seconds = TokenSum(text, Len(text))]_vars

\* A worklog of 2 hours 30 minutes, 9000 seconds, was saved for later.
C16_witness ==
    /\ last = "save_worklog_for_later"
    /\ pending_worklogs # <<>>
    /\ pending_worklogs[Len(pending_worklogs)].seconds = 9000

\* ------------------------------------------------- format_duration's text --
\* 10 to the power of k.
RECURSIVE TenTo(_)
TenTo(k) == IF k = 0 THEN 1 ELSE 10 * TenTo(k - 1)

\* The decimal digits of n >= 0 followed by the suffix.
Component(n, suffix) ==
    LET width == CHOOSE w \in 1..10 : n < TenTo(w) /\ (w = 1 \/ n >= TenTo(w - 1))
    IN [k \in 1..width |-> DigitChars[((n \div TenTo(width - k)) % 10) + 1]] \o <<suffix>>

\* Two texts with a blank between them, or the one that is not empty.
Spaced(a, b) == IF a = <<>> THEN b ELSE IF b = <<>> THEN a ELSE a \o <<" ">> \o b

\* The components of s >= 0 that are not zero, days first, hours below 24,
\* minutes and seconds below 60, and the seconds also when s < 60.
Components(s) ==
    LET d == s \div 86400
        h == (s % 86400) \div 3600
        m == (s % 3600) \div 60
        x == s % 60
    IN Spaced(Spaced(Spaced(IF d > 0 THEN Component(d, "d") ELSE <<>>,
                            IF h > 0 THEN Component(h, "h") ELSE <<>>),
                     IF m > 0 THEN Component(m, "m") ELSE <<>>),
              IF x > 0 \/ s < 60 THEN Component(x, "s") ELSE <<>>)

\* C17: format_duration(s) of s >= 0 is the components of s that are not zero,
\* days, hours below 24, minutes below 60 and seconds below 60 in that order
\* with one blank between them, the seconds also when s < 60 (0 gives 0s, no
\* s gives the empty text); 90 gives 1m 30s, 3661 gives 1h 1m 1s and 90061
\* gives 1d 1h 1m 1s.  Of s < 0 it raises instead of returning a text: the
\* WorklogDialog opens with that text as time spent, and does not open when
\* current_seconds is negative.
C17_format_components ==
    [][\A i \in 1..Len(timers) :
        post_worklog(i) =>
            LET s == current_seconds(timers[i], clock) IN
            IF s < 0
            THEN /\ format_duration(s) = <<"ValueError">>
                 /\ dialog' = dialog
                 /\ last' = "post_worklog:ValueError"
            ELSE /\ format_duration(s) = Components(s)
                 /\ format_duration(s) # <<>>
                 /\ dialog' = [open |-> TRUE, row |-> i, time_var |-> Components(s)]
                 /\ format_duration(90) = <<"1", "m", " ", "3", "0", "s">>
                 /\ format_duration(3661) = <<"1", "h", " ", "1", "m", " ", "1", "s">>
                 /\ format_duration(0) = <<"0", "s">>]_vars

\* The WorklogDialog is open on a timer that tracked 90061 seconds and shows
\* 1d 1h 1m 1s.
C17_witness ==
    /\ last = "post_worklog"
    /\ dialog.open
    /\ current_seconds(timers[dialog.row], clock) = 90061
    /\ dialog.time_var = <<"1", "d", " ", "1", "h", " ", "1", "m", " ", "1", "s">>

\* -------------------------------------------- callbacks for a removed timer --
\* Rows are added and removed, issue keys are entered and worklogs are posted
\* at once while the requests of the background threads return or raise.
SpecOrphan ==
    InitWorking /\ [][\/ add_timer(MaxRows)
                      \/ \E i \in 1..MaxRows : remove_timer(i)
                      \/ \E i \in 1..MaxRows : on_issue_changed(i, "A")
                      \/ \E i \in 1..MaxRows : post_worklog(i)
                      \/ dialog_cancel
                      \/ dialog_post(dialog.time_var, "c", FALSE)
                      \/ RequestNext
                      \/ apply_issue_details
                      \/ fetch_failed
                      \/ PostCallbacks]_vars

\* C18: the success callback of an issue fetch or of a worklog post whose
\* timer was removed while the request ran completes without an error and
\* leaves the registry and the state of every remaining timer as they were.
C18_removed_target_is_skipped ==
    [][((apply_issue_details \/ \E confirm \in BOOLEAN : worklog_posted(confirm))
            /\ Head(events).task.row = 0)
        => /\ timers' = timers
           /\ last' # "_worklog_posted:TclError"]_vars

\* ------------------------------------------- threads and the owner thread --
\* Issue keys are entered, worklogs are posted at once or saved for later,
\* and the whole queue is posted, while the requests of the background threads return or raise.
SpecWorkers ==
    InitWorking /\ [][\/ \E i \in 1..MaxRows : on_issue_changed(i, "B")
                      \/ DialogNext(MaxRows, {}, {"c"})
                      \/ post_pending_worklogs
                      \/ RequestNext
                      \/ apply_issue_details
                      \/ fetch_failed
                      \/ PostCallbacks
                      \/ handle_error("post_all")
                      \/ pending_worklogs_posted]_vars

\* C19: a step of a background thread (a request that returns or raises)
\* leaves the timer registry, the pending queue and the settings as they are,
\* so every step that changes one of them is a step of the owner thread; a
\* callback is scheduled by the last step of its thread, after every request
\* of the operation was made, and the owner thread runs it as one step that
\* takes exactly that callback off its queue.
C19_threads_never_write ==
    [][/\ (\E k \in 1..MaxInFlight : request_ok(k) \/ request_fail(k))
            => UNCHANGED <<timers, pending_worklogs, settings>>
       /\ (<<timers, pending_worklogs, settings>>' # <<timers, pending_worklogs, settings>>)
            => /\ Len(tasks') >= Len(tasks)
               /\ SubSeq(tasks', 1, Len(tasks)) = tasks
               /\ Len(events') <= Len(events)
       /\ Len(events') > Len(events)
            => \E k \in 1..Len(tasks) :
                /\ tasks' = RemoveAt(tasks, k)
                /\ events' = Append(events, events'[Len(events')])
                /\ LET e == events'[Len(events')] IN
                   /\ [e.task EXCEPT !.done = tasks[k].done] = tasks[k]
                   /\ (e.ok /\ e.task.kind = "post_all") => e.task.done = Len(e.task.items)
       /\ Len(events') < Len(events)
            => /\ events' = Tail(events)
               /\ tasks' = tasks]_vars

\* The success callback of a batch has emptied the queue on the owner thread,
\* after the thread posted the entry.
C19_witness ==
    /\ last = "_pending_worklogs_posted"
    /\ pending_worklogs = <<>>
    /\ \E u \in 1..MaxPending : posted[u] >= 1
    /\ tasks = <<>>
    /\ events = <<>>

\* ------------------------------------------------------------ edit_duration --
\* C20: edit_duration with a text that parses to n >= 0 sets the timer's
\* seconds to n and leaves every other timer as it is; a running timer stays
\* running with its run start at the time of the edit, an idle timer stays
\* idle with no run start; current_seconds at that instant is n.
C20_edit_sets_seconds ==
    [][\A i \in 1..Len(timers) : \A value \in TimingDurations :
        (edit_duration(i, value) /\ value # <<>> /\ parse_duration(value) # ValueError)
            => LET n == parse_duration(value) IN
               /\ n >= 0
               /\ Len(timers') = Len(timers)
               /\ timers'[i].seconds = n
               /\ timers'[i].running = timers[i].running
               /\ timers'[i].last_started = IF timers[i].running THEN clock ELSE None
               /\ current_seconds(timers'[i], clock') = n
               /\ \A j \in 1..Len(timers) : j # i => timers'[j] = timers[j]]_vars

\* A running timer that had tracked more than a second since an earlier run
\* start was just edited to 1s: it runs from now on 1 second.
C20_witness ==
    /\ last = "edit_duration"
    /\ \E i \in 1..Len(timers) :
        /\ timers[i].running
        /\ timers[i].seconds = 1
        /\ timers[i].last_started = clock
        /\ clock > TicksPerSecond + 1

\* ------------------------------------------------------- rejected durations --
\* What the user leaves in a duration field: "", "1s", "1 s" and "2".
RejectInputs == {<<>>, <<"1", "s">>, <<"1", " ", "s">>, <<"2">>}

\* The timer is started and paused, its duration is edited, and worklogs are
\* saved for later from the WorklogDialog, with every text of RejectInputs in
\* the duration fields.
SpecReject ==
    InitWorking /\ [][\/ \E i \in 1..MaxRows : toggle_timer(i)
                      \/ \E i \in 1..MaxRows : \E value \in RejectInputs :
                            edit_duration(i, value)
                      \/ \E i \in 1..MaxRows : post_worklog(i)
                      \/ dialog_cancel
                      \/ \E text \in RejectInputs : dialog_post(text, "c", TRUE)
                      \/ \E text \in RejectInputs : \E remaining \in RejectInputs :
                            dialog_post_new(text, remaining, "c", TRUE)
                      \/ RequestNext
                      \/ handle_error("transition")
                      \/ transition_done]_vars

\* C21: a text that does not parse, in a duration edit or in the time spent
\* or the new remaining estimate of the WorklogDialog, commits nothing: the
\* timers, the pending queue, the files and the running threads are as they
\* were, and the dialog stays open without a result.
C21_unparsed_commits_nothing ==
    [][LET Bad == {text \in RejectInputs : parse_duration(text) = ValueError} IN
       /\ \A i \in 1..Len(timers) : \A value \in Bad :
            edit_duration(i, value)
                => UNCHANGED <<timers, pending_worklogs, disk, tasks, events, dialog>>
       /\ \A text \in Bad :
            dialog_post(text, "c", TRUE)
                => UNCHANGED <<timers, pending_worklogs, disk, tasks, events, dialog>>
       /\ \A text \in RejectInputs : \A remaining \in RejectInputs :
            ((text \in Bad \/ remaining \in Bad)
                /\ dialog_post_new(text, remaining, "c", TRUE))
                => UNCHANGED <<timers, pending_worklogs, disk, tasks, events, dialog>>]_vars

\* The WorklogDialog has refused a remaining estimate while a worklog is
\* queued: it is still open and the queue holds that one entry.
C21_witness ==
    /\ last = "WorklogDialog._post:invalid_remaining_estimate"
    /\ dialog.open
    /\ Len(pending_worklogs) = 1

\* ------------------------------------------------- start without an issue --
\* C22: start_timer, which the Start button calls on a timer that is not
\* running, on a timer whose issue key is empty shows the error and changes
\* nothing: that timer is idle with the seconds it had and no run
\* start, every other timer is as it was (a running one keeps running), no
\* thread is started for a transition, and nothing is written.
C22_start_needs_issue ==
    [][\A i \in 1..Len(timers) :
        (toggle_timer(i) /\ ~timers[i].running /\ timers[i].issue_key = "")
            => /\ timers' = timers
               /\ ~timers'[i].running
               /\ timers'[i].last_started = None
               /\ tasks' = tasks
               /\ events' = events
               /\ disk' = disk
               /\ last' = "start_timer:issue_missing"]_vars

\* Start was refused on a timer without an issue while another timer runs.
C22_witness ==
    /\ last = "start_timer:issue_missing"
    /\ \E i \in 1..Len(timers) : timers[i].issue_key = "" /\ ~timers[i].running
    /\ \E j \in 1..Len(timers) : timers[j].running /\ timers[j].last_started # None

\* ------------------------------------------------------ failed issue fetch --
\* C23: the error callback of an issue fetch that failed leaves every timer's
\* issue key, description, seconds and running flag, and the pending queue, as
\* they were before it.
C23_failed_fetch_changes_nothing ==
    [][fetch_failed =>
        /\ Len(timers') = Len(timers)
        /\ \A i \in 1..Len(timers) :
            /\ timers'[i].issue_key = timers[i].issue_key
            /\ timers'[i].description = timers[i].description
            /\ timers'[i].seconds = timers[i].seconds
            /\ timers'[i].running = timers[i].running
        /\ pending_worklogs' = pending_worklogs]_vars

\* ------------------------------------------------- without configuration --
\* C24: while the client is not configured no handler starts a background
\* thread, and the owner thread never runs the callback of an operation that
\* was started without configuration.
C24_unconfigured_starts_nothing ==
    [][/\ ~settings.configured => Len(tasks') <= Len(tasks)
       /\ Len(events') < Len(events) => Head(events).task.client]_vars

\* -------------------------------------------------------------- the files --
\* A file of the storage directory as json.loads sees it: missing, not JSON,
\* a JSON number, a JSON object, or a JSON array of items.  An item is a JSON
\* object or a number; `bad` marks an object a deserialize raises on (seconds
\* that are no number, a pending worklog without issue_key); `value` holds
\* what its keys give.
Document(kind, items, value) == [kind |-> kind, items |-> items, value |-> value]

Payload(shape, bad, value) == [shape |-> shape, bad |-> bad, value |-> value]

\* What a load returns, or that it raised.
Loaded(value) == [raised |-> FALSE, value |-> value]

Raised(value) == [raised |-> TRUE, value |-> value]

\* TimerState.serialize() / PendingWorklog.serialize(): a JSON object of the
\* fields.
serialize(value) == Payload("object", FALSE, value)

\* save_state and save_pending_worklogs, had they written the list backwards.
save_list_reversed(entries) ==
    Document("array",
             [j \in 1..Len(entries) |-> serialize(entries[Len(entries) + 1 - j])], <<>>)

\* save_state(timers) and save_pending_worklogs(worklogs): the array of the
\* serialized entries, in the order of the list.
save_list(entries) ==
    Document("array", [j \in 1..Len(entries) |-> serialize(entries[j])], <<>>)

\* save_settings(settings): the JSON object of the settings.
save_settings(st) == Document("object", <<>>, st)

\* The loop of load_state and load_pending_worklogs: deserialize each item,
\* `except Exception: continue` on one that raises (a number has no get and
\* no keys).
RECURSIVE deserialize_items(_)
deserialize_items(items) ==
    IF items = <<>> THEN <<>>
    ELSE IF Head(items).shape = "object" /\ ~Head(items).bad
         THEN <<Head(items).value>> \o deserialize_items(Tail(items))
         ELSE deserialize_items(Tail(items))

\* load_state() and load_pending_worklogs(): [] when the file is missing or
\* json.loads raises JSONDecodeError; `for payload in data` raises TypeError
\* on a number; the keys of an object are strings, on which deserialize
\* raises, so each is skipped.
load_list(doc) ==
    IF doc.kind \in {"missing", "not_json"} THEN Loaded(<<>>)
    ELSE IF doc.kind = "number" THEN Raised(<<>>)
    ELSE IF doc.kind = "object" THEN Loaded(<<>>)
    ELSE Loaded(deserialize_items(doc.items))

\* load_settings(): the defaults when the file is missing or not JSON;
\* AppSettings.deserialize(data) calls data.get, which a number and an array
\* with items do not have.
load_settings(doc) ==
    IF doc.kind \in {"missing", "not_json"} THEN Loaded(AppSettings)
    ELSE IF doc.kind = "number" THEN Raised(AppSettings)
    ELSE IF doc.kind = "array"
         THEN IF doc.items = <<>> THEN Loaded(AppSettings) ELSE Raised(AppSettings)
    ELSE Loaded(doc.value)

\* The lists an earlier session may have had in memory when it saved them: up
\* to FileLen timers, one idle with a second tracked for issue A and one
\* running for issue B, and up to FileLen pending worklogs.
FileLen == 2

FileStates ==
    {[TimerState EXCEPT !.issue_key = "A", !.description = "sumA", !.seconds = 1],
     [TimerState EXCEPT !.issue_key = "B", !.running = TRUE, !.last_started = 1,
                        !.comment = "c"]}

FileWorklogs ==
    {[uid |-> 1, issue_key |-> "A", seconds |-> 1, comment |-> "c", created_at |-> 1],
     [uid |-> 2, issue_key |-> "B", seconds |-> 2, comment |-> "", created_at |-> 1]}

ListsOf(S) == UNION {[1..n -> S] : n \in 0..FileLen}

\* What the three files may hold when the application starts: nothing, text
\* that is no JSON, a number, an object, or an array whose items are what the
\* application wrote, numbers, or objects its deserialize raises on.
StateDocuments ==
    {Document(kind, <<>>, <<>>) : kind \in {"missing", "not_json", "number", "object"}}
    \cup {Document("array", items, <<>>) :
            items \in ListsOf({serialize(st) : st \in FileStates}
                              \cup {Payload("number", FALSE, TimerState),
                                    Payload("object", TRUE, TimerState)})}

PendingDocuments ==
    {Document(kind, <<>>, <<>>) : kind \in {"missing", "not_json", "number", "object"}}
    \cup {Document("array", items, <<>>) :
            items \in ListsOf({serialize(w) : w \in FileWorklogs}
                              \cup {Payload("object", TRUE, NoWorklog)})}

SettingsDocuments ==
    {Document(kind, <<>>, AppSettings) : kind \in {"missing", "not_json", "number", "array"}}
    \cup {Document("array", <<Payload("number", FALSE, <<>>)>>, AppSettings)}
    \cup {save_settings(st) : st \in {AppSettings, [configured |-> TRUE, filter_cache |-> {"A"}]}}

\* Before the application starts, with the three files as they may be; here
\* disk holds the files as documents.
InitFiles ==
    /\ alive = FALSE
    /\ clock = 2
    /\ timers = <<>>
    /\ pending_worklogs = <<>>
    /\ settings = AppSettings
    /\ dialog = NoDialog
    /\ tasks = <<>>
    /\ events = <<>>
    /\ \E t \in StateDocuments : \E s \in SettingsDocuments : \E p \in PendingDocuments :
        disk = [timers |-> t, settings |-> s, pending |-> p]
    /\ posted = [u \in 1..MaxPending |-> 0]
    /\ next_uid = 1
    /\ removed = {}
    /\ last = "kill"

\* JiraStopWatchApp.__init__() on the files: load_settings, then
\* load_pending_worklogs, then _load_timers with load_state.  A load that
\* raises ends __init__ and with it main(): no window, the process exits.
launch_files ==
    /\ ~alive
    /\ LET st == load_settings(disk.settings)
           pw == load_list(disk.pending)
           rows == load_list(disk.timers)
       IN IF st.raised \/ pw.raised \/ rows.raised
          THEN /\ last' = "__init__:raised"
               /\ UNCHANGED <<alive, settings, pending_worklogs, timers>>
          ELSE /\ alive' = TRUE
               /\ settings' = st.value
               /\ pending_worklogs' = pw.value
               /\ timers' = load_timers(rows.value, clock)
               /\ last' = "__init__"
    /\ UNCHANGED <<clock, dialog, tasks, events, disk, posted, next_uid, removed>>

\* The application is started on the files, killed, and started again.
SpecFiles ==
    InitFiles /\ [][launch_files \/ kill]_vars

\* C25: a start of the application on a file that is missing or corrupt (no
\* JSON, or JSON of the wrong shape) does not fail: the settings are the
\* defaults, the pending queue is empty, the registry is the one of an empty
\* timer list; of an array, the items that are malformed are skipped and the
\* others are loaded in their order.
C25_corrupt_files_load_empty ==
    [][launch_files =>
        LET Good(items) == SelectSeq(items, LAMBDA p : p.shape = "object" /\ ~p.bad)
            Values(items) == [j \in 1..Len(Good(items)) |-> Good(items)[j].value]
        IN /\ alive'
           /\ last' = "__init__"
           /\ disk.settings.kind # "object" => settings' = AppSettings
           /\ pending_worklogs' = IF disk.pending.kind = "array"
                                  THEN Values(disk.pending.items) ELSE <<>>
           /\ timers' = load_timers(IF disk.timers.kind = "array"
                                    THEN Values(disk.timers.items) ELSE <<>>, clock)]_vars

\* --------------------------------------------------- entries of the queue --
\* C26: in every state every entry of the pending queue has an issue key that
\* is not empty and more than 0 seconds.
C26_entries_are_positive ==
    \A p \in 1..Len(pending_worklogs) :
        /\ pending_worklogs[p].issue_key # ""
        /\ pending_worklogs[p].seconds > 0

C28_retry_posts_again ==
    [][/\ (handle_error("post_all") /\ Head(events).task.done >= 1)
            => /\ pending_worklogs' = pending_worklogs
               /\ \A j \in 1..Head(events).task.done :
                    posted[Head(events).task.items[j].uid] >= 1
       /\ (post_pending_worklogs /\ Len(tasks') > Len(tasks))
            => tasks'[Len(tasks')].items = pending_worklogs
       /\ \A k \in 1..Len(tasks) :
            (request_ok(k) /\ tasks[k].kind = "post_all")
                => LET uid == tasks[k].items[tasks[k].done + 1].uid
                   IN posted'[uid] = posted[uid] + 1]_vars

\* Jira holds two worklogs of one pending entry.
C28_witness ==
    \E u \in 1..MaxPending : posted[u] >= 2

\* ------------------------------------------------- the persisted timer list --
\* C29: after every completed handler that changes the registry of timers, the
\* timer list on disk is the in-memory list of timer states; the Add Timer
\* button is such a handler.
C29_counterexample == last = "add_timer" => disk.timers = timers

\* ------------------------------------------------------ timers and the queue --
\* The registry of timers and the pending queue side by side, at one clock
\* reading: rows are added, removed, started, paused, reset and edited,
\* worklogs are saved for later or fail to post, entries are removed and the
\* queue is posted as a batch, and the process is killed and started again.
ApartDurations == {<<"1", "s">>}

SpecApart ==
    InitWorking /\ [][\/ \E i \in 1..MaxRows : toggle_timer(i)
                      \/ \E i \in 1..MaxRows : reset_timer(i)
                      \/ \E i \in 1..MaxRows : \E value \in ApartDurations :
                             edit_duration(i, value)
                      \/ RegistryNext(MaxRows)
                      \/ DialogNext(MaxRows, {}, {"c"})
                      \/ post_pending_worklogs
                      \/ \E S \in Selections : remove_selected(S)
                      \/ RequestNext
                      \/ PostCallbacks
                      \/ \E kind \in {"transition", "post_all"} : handle_error(kind)
                      \/ transition_done
                      \/ pending_worklogs_posted
                      \/ kill
                      \/ launch]_vars

\* C30: add, remove, start, pause, reset, edit duration, pause all, reset all
\* and remove all leave the pending queue as it is (a step that changes the
\* queue is none of them), and the next start of the application restores the
\* queue that was last held; saving a worklog for later, a failed post that
\* is queued, removing entries from the panel, the batch post, its requests
\* and its callbacks leave every timer's state as it is (a step that changes a
\* timer's state is none of them).
C30_timers_and_queue_apart ==
    /\ [](alive => disk.pending = pending_worklogs)
    /\ [][/\ \/ pending_worklogs' = pending_worklogs
              \/ ~(\/ RegistryNext(MaxRows)
                   \/ \E i \in 1..MaxRows : (toggle_timer(i) \/ reset_timer(i))
                   \/ \E i \in 1..MaxRows : \E value \in ApartDurations :
                          edit_duration(i, value))
           /\ (launch => pending_worklogs' = disk.pending)
           /\ \/ timers' = timers
              \/ ~(\/ \E text \in {dialog.time_var} : dialog_post(text, "c", TRUE)
                   \/ handle_worklog_failure
                   \/ \E S \in Selections : remove_selected(S)
                   \/ post_pending_worklogs
                   \/ \E k \in 1..Len(tasks) :
                          IF tasks[k].kind = "post_all"
                          THEN request_ok(k) \/ request_fail(k)
                          ELSE FALSE
                   \/ handle_error("post_all")
                   \/ pending_worklogs_posted)]_vars

\* A failed post was queued while its row held tracked time, and the row
\* still holds it.
C30_witness ==
    /\ last = "_handle_worklog_failure"
    /\ Len(pending_worklogs) >= 1
    /\ \E i \in 1..Len(timers) : timers[i].seconds > 0

\* ------------------------------------------------------- stale issue fetch --
\* Issue keys are typed into the rows, and cleared, while the fetches of the
\* keys typed before are still running or waiting for their callback.
StaleIssues == {"", "B"}

SpecStale ==
    InitWorking /\ [][\/ add_timer(MaxRows)
                      \/ \E i \in 1..MaxRows : \E text \in StaleIssues :
                             on_issue_changed(i, text)
                      \/ RequestNext
                      \/ apply_issue_details
                      \/ fetch_failed]_vars

\* C31: the success callback of an issue fetch leaves the issue key of its row
\* as the user last entered it: the result of a fetch that was started for an
\* earlier key never replaces a newer key.
C31_counterexample ==
    [][apply_issue_details =>
        \A i \in 1..Len(timers) : timers'[i].issue_key = timers[i].issue_key]_vars

\* ------------------------------------------------- post selected, delivered --
\* C32: the success callback of Post Selected removes from the queue only
\* entries that its operation posted, whatever happened to the queue between
\* the selection and the callback.
C32_counterexample ==
    [][selected_posted =>
        \A p \in 1..Len(pending_worklogs) :
            (\A q \in 1..Len(pending_worklogs') :
                pending_worklogs'[q].uid # pending_worklogs[p].uid)
            => \E k \in 1..Len(Head(events).task.items) :
                   Head(events).task.items[k].uid = pending_worklogs[p].uid]_vars

\* ------------------------------------------------ posting while it runs --
\* The application as it starts when the earlier session left the timer of
\* issue A running: _load_timers keeps it running from the start on.
InitRunning ==
    LET rows == <<[TimerState EXCEPT !.issue_key = "A", !.description = Summary("A"),
                                     !.running = TRUE, !.last_started = 1]>>
        st == [configured |-> TRUE, filter_cache |-> {"A"}]
    IN /\ alive = TRUE
       /\ clock = 1
       /\ timers = load_timers(rows, clock)
       /\ pending_worklogs = <<>>
       /\ settings = st
       /\ dialog = NoDialog
       /\ tasks = <<>>
       /\ events = <<>>
       /\ disk = persist_state(rows, st, <<>>)
       /\ posted = [u \in 1..MaxPending |-> 0]
       /\ next_uid = 1
       /\ removed = {}
       /\ last = "__init__"

\* Time passes while the worklog of the running timer is posted with the
\* time-spent field as WorklogDialog filled it.
SpecRunning ==
    InitRunning /\ [][\/ Advance(MaxClock, MaxSeconds)
                      \/ DialogNext(MaxRows, {}, {"c"})
                      \/ RequestNext
                      \/ PostCallbacks]_vars

\* C33: when the success callback of an immediate post resets a running timer,
\* the seconds of the worklog that was sent are the current_seconds the timer
\* has at that moment.
C33_counterexample ==
    [][(/\ worklog_posted(TRUE)
        /\ Head(events).task.row # 0
        /\ timers[Head(events).task.row].running)
        => Head(events).task.worklog.seconds
               = current_seconds(timers[Head(events).task.row], clock)]_vars

\* ------------------------------------------------------------------ the tick --
\* JiraStopWatchApp._tick() at clock reading now: refresh_display of some row
\* raises in format_duration, so _tick ends before self.after(...) schedules
\* the next tick.
tick_raises(rows, now) ==
    \E i \in 1..Len(rows) :
        format_duration(refresh_display(rows[i], now)) = <<"ValueError">>

\* C34: in every state of the running application, at the clock reading of
\* that state, a tick hands no negative seconds to format_duration: it does
\* not raise and schedules the next tick.
C34_counterexample == alive => ~tick_raises(timers, clock)

\* --------------------------------------------------- running without a key --
\* C35: in every state a running timer has a non-empty issue key.
C35_counterexample ==
    \A i \in 1..Len(timers) : timers[i].running => timers[i].issue_key # ""

\* ------------------------------------------------------- any list of indices --
\* The iterables of up to RemoveLen indices remove_pending_by_indices may be
\* handed for a queue of n entries: positions in any order, repeated, and
\* outside the queue (0 is index -1, n + 1 is index len).
AnyIndices(n) == UNION {[1..m -> 0..(n + 1)] : m \in 0..RemoveLen}

SpecIndices ==
    InitQueued /\ [][\E indices \in AnyIndices(Len(pending_worklogs)) :
                        remove_by_indices(indices)]_vars

\* C36: remove_pending_by_indices, handed any list of indices, shortens the
\* queue by the number of distinct indices inside the queue, and every entry
\* at a position the list does not name stays in the queue.
C36_counterexample ==
    [][\A indices \in AnyIndices(Len(pending_worklogs)) :
        remove_by_indices(indices) =>
            LET n == Len(pending_worklogs)
                S == {indices[a] : a \in 1..Len(indices)} \cap (1..n)
            IN /\ Len(pending_worklogs') = n - Cardinality(S)
               /\ \A p \in (1..n) \ S :
                    \E q \in 1..Len(pending_worklogs') :
                        pending_worklogs'[q] = pending_worklogs[p]]_vars

====
